---- MODULE Spec2Model ----
(***************************************************************************)
(* A model of RestGPT (Yifan-Song793/RestGPT): the orchestrator's two-level *)
(* loop (model/rest_gpt.py), the API Selector's validation loop and retry   *)
(* policy (model/api_selector.py), and the Caller's turn loop               *)
(* (model/caller.py), with the helpers they call (utils/utils.py).          *)
(*                                                                          *)
(* Texts are sequences of tokens (strings): a marker such as "Continue" or  *)
(* "Execution Result:" is one token, and so is one word, one line break or  *)
(* one JSON punctuation mark.  A regular-expression search is then a search *)
(* of the token sequence.  What an LLM, the HTTP service or the clock       *)
(* returns is an input, drawn from a small set.                             *)
(***************************************************************************)
EXTENDS Integers, Sequences, FiniteSets, TLC

VARIABLES
    \* ---- RestGPT._call (model/rest_gpt.py) ----
    pc,                     \* position in RestGPT._call
    track,                  \* TRUE: histories and call counters are recorded
    max_iterations,         \* RestGPT.max_iterations (None or a number)
    max_execution_time,     \* RestGPT.max_execution_time (None or a number)
    plan,                   \* the latest Planner output
    planner_history,        \* list of (plan, execution_res)
    tmp_planner_history,    \* [plan] of the current outer iteration
    api_selector_history,   \* list of (plan, api_plan, execution_res)
    api_selector_background,
    api_plan,               \* the latest Selector output
    iterations,
    time_elapsed,
    inner,                  \* TRUE inside the inner "Continue" loop
    result,                 \* {"result": plan} once returned
    calls,                  \* how many calls of each kind the run has made
    planner_inputs,         \* the history handed to each Planner call
    selector_inputs,        \* the inputs handed to each Selector call
    caller_inputs,          \* the inputs handed to each Caller run
    \* ---- APISelector._call under @retry (model/api_selector.py) ----
    sel_pc,                 \* position in APISelector._call
    sel_inputs,             \* the inputs: optional history and instruction
    scratchpad,
    api_selector_chain_output,
    sel_api_plan,           \* the local api_plan
    sel_result,             \* {"result": api_plan} once returned
    sel_outputs,            \* the completions of the current attempt, in order
    retry_tries,            \* the retry decorator's _tries
    retry_delay,            \* the retry decorator's _delay
    sleeps,                 \* the waits made so far, in order
    \* ---- the catalog (api_spec.endpoints), shared by every component ----
    catalog,                \* per endpoint, the keys of its success schema
    \* ---- Caller._call (model/caller.py) ----
    c_pc,                   \* position in Caller._call
    c_scenario,             \* Caller.scenario
    c_max_iterations,       \* Caller.max_iterations (None or a number)
    c_max_execution_time,   \* Caller.max_execution_time (None or a number)
    c_api_plan,             \* inputs['api_plan']
    endpoint_name,          \* the one endpoint the plan resolves to
    c_iterations,
    c_time_elapsed,
    intermediate_steps,     \* list of (caller_chain_output, parsing_res)
    c_scratchpad,
    caller_chain_output,    \* the latest completion of the Caller's LLM
    action,
    action_input,
    http_response,          \* the latest answer of the target service
    turn,                   \* response, params, request_body, desc, query
    called_endpoint_name,
    parser_inputs,          \* what the latest parser run was given
    c_result,               \* {"result": ...} once returned
    c_error,                \* the exception that escaped
    c_calls,                \* completions, requests and parser runs so far
    \* ---- ResponseParser._call (model/parser.py) ----
    p_pc,                   \* position in ResponseParser._call
    p_inputs,               \* query (given or None) and json (the body)
    p_schema_prompt,        \* code_parsing_schema_prompt is not None
    p_code,                 \* which prompt the current program came from
    p_output,
    p_encoded_json,         \* len(encoded_json)
    p_simplified_json_data,
    p_events,               \* the completions asked for and the programs run
    p_result,               \* {"result": output} once returned
    p_error,                \* the exception that escaped
    \* ---- RestGPT.__init__ (model/rest_gpt.py) ----
    init_pc,                \* position in RestGPT.__init__
    init_arg,               \* the scenario argument as passed
    init_flags,             \* the boolean arguments as passed
    init_scenario,          \* the local scenario
    constructed,            \* the components constructed so far, in order
    init_error,             \* the exception that escaped
    \* ---- a call of get_matched_endpoint (utils/utils.py) ----
    m_pc,
    m_mention,              \* the endpoint the plan mentions
    m_plan,                 \* the plan argument
    m_result,               \* what the call returned
    \* ---- a call of fix_json_error (utils/utils.py) ----
    f_pc,
    f_input,                \* the document, the commas left out, the wrapping
    f_text,                 \* the data argument
    f_round,                \* how many times the function was applied
    f_result,               \* what the call returned, or that it raised
    \* ---- a call of simplify_json (utils/utils.py) ----
    s_pc,
    s_choice,               \* what the argument was built from
    s_raw_json,             \* the argument
    s_result,               \* what the call returned
    \* ---- a call of dereference_refs (utils/oas_utils.py) ----
    d_pc,
    d_slots,                \* what each schema slot of the document holds
    d_foo,                  \* what components/schemas/Foo of the full spec is
    d_result,               \* what the call returned, or the exception raised
    \* ---- a call of merge_allof_properties (utils/oas_utils.py) ----
    g_pc,
    g_kinds,                \* the fragments of the allOf list
    g_place,                \* where in the argument the allOf holder is
    g_result,               \* what the call returned
    \* ---- a call of reduce_openapi_spec (utils/oas_utils.py) ----
    r_pc,
    r_routes,               \* the entry each route of the spec holds
    r_flags,                \* dereference, only_required, merge_allof
    r_result,               \* the catalog returned, or the exception raised
    \* ---- the batch runner over the movie dataset (run_tmdb.py) ----
    b_pc,
    b_queries,              \* how the run of each query of the dataset ends
    idx,                    \* the number of the query at hand
    b_raised,               \* the exception in flight
    file_handler,           \* the rotating log handler
    b_events,               \* what was run, printed and rotated, in order
    \* ---- the start of the web front end (streamlit_app.py) ----
    k_pc,
    secrets,                \* what st.secrets holds under each key
    config,                 \* what config.yaml holds under each key
    environ,                \* the environment variables set so far
    k_error,                \* the exception that left main()
    \* ---- get_matched_endpoint on plans with several mentions (utils/utils.py) ----
    l_pc,
    l_catalog,              \* which of the catalogs api_spec holds
    l_mentions,             \* the endpoints the plan mentions, in order
    l_plan,                 \* the plan text
    l_result,               \* what get_matched_endpoint returned
    \* ---- MyRotatingFileHandler (utils/utils.py) ----
    h_pc,
    h_total,                \* how many queries the batch has
    h_query,                \* the query being run
    h_handler,              \* the handler's cnt and stream
    h_files,                \* the log directory: file number -> its lines
    h_logged,               \* every record emitted so far, in order
    \* ---- init_spotify (utils/utils.py) ----
    i_pc,
    i_service,              \* how many playlists, tracks, albums, artists the account holds
    i_left,                 \* the playlists not yet unfollowed
    i_seeded,               \* how many of the seeding requests were sent
    i_requests              \* every request sent so far, in order

orchVars == <<pc, track, max_iterations, max_execution_time, plan,
              planner_history, tmp_planner_history, api_selector_history,
              api_selector_background, api_plan, iterations, time_elapsed,
              inner, result, calls, planner_inputs, selector_inputs,
              caller_inputs>>

selVars == <<sel_pc, sel_inputs, scratchpad, api_selector_chain_output,
             sel_api_plan, sel_result, sel_outputs, retry_tries, retry_delay,
             sleeps>>

callerVars == <<c_pc, c_scenario, c_max_iterations, c_max_execution_time, c_api_plan,
                endpoint_name, c_iterations, c_time_elapsed,
                intermediate_steps, c_scratchpad, caller_chain_output, action,
                action_input, http_response, turn, called_endpoint_name,
                parser_inputs, c_result, c_error, c_calls>>

parserVars == <<p_pc, p_inputs, p_schema_prompt, p_code, p_output,
                p_encoded_json, p_simplified_json_data, p_events, p_result,
                p_error>>

ctorVars == <<init_pc, init_arg, init_flags, init_scenario, constructed,
              init_error>>

matcherVars == <<m_pc, m_mention, m_plan, m_result>>

fixerVars == <<f_pc, f_input, f_text, f_round, f_result>>

simplifyVars == <<s_pc, s_choice, s_raw_json, s_result>>

derefVars == <<d_pc, d_slots, d_foo, d_result>>

mergeVars == <<g_pc, g_kinds, g_place, g_result>>

reduceVars == <<r_pc, r_routes, r_flags, r_result>>

batchVars == <<b_pc, b_queries, idx, b_raised, file_handler, b_events>>

secretsVars == <<k_pc, secrets, config, environ, k_error>>

matchListVars == <<l_pc, l_catalog, l_mentions, l_plan, l_result>>

rotateVars == <<h_pc, h_total, h_query, h_handler, h_files, h_logged>>

spotifyVars == <<i_pc, i_service, i_left, i_seeded, i_requests>>

utilVars == <<matcherVars, fixerVars, simplifyVars, derefVars,
              mergeVars, reduceVars, batchVars, secretsVars,
              matchListVars, rotateVars, spotifyVars>>

\* what RestGPT._call leaves alone
nonOrchVars == <<selVars, callerVars, parserVars, catalog, ctorVars, utilVars>>

\* what APISelector._call leaves alone
nonSelVars == <<orchVars, callerVars, parserVars, catalog, ctorVars, utilVars>>

\* what Caller._call leaves alone
nonCallerVars == <<orchVars, selVars, parserVars, ctorVars,
                  utilVars>>

\* what ResponseParser._call leaves alone
nonParserVars == <<orchVars, selVars, callerVars, catalog, ctorVars, utilVars>>

\* what RestGPT.__init__ leaves alone
nonCtorVars == <<orchVars, selVars, callerVars, parserVars, catalog, utilVars>>

\* what the calls of the utilities leave alone
nonMatcherVars == <<orchVars, selVars, callerVars, parserVars, catalog, ctorVars,
                   fixerVars, simplifyVars, derefVars, mergeVars,
    reduceVars,
    batchVars,
    secretsVars,
    matchListVars,
    rotateVars,
    spotifyVars>>

nonFixerVars == <<orchVars, selVars, callerVars, parserVars, catalog, ctorVars,
                 matcherVars, simplifyVars, derefVars, mergeVars,
    reduceVars,
    batchVars,
    secretsVars,
    matchListVars,
    rotateVars,
    spotifyVars>>

nonSimplifyVars == <<orchVars, selVars, callerVars, parserVars, catalog, ctorVars,
                    matcherVars, fixerVars, derefVars, mergeVars,
    reduceVars,
    batchVars,
    secretsVars,
    matchListVars,
    rotateVars,
    spotifyVars>>

nonDerefVars == <<orchVars, selVars, callerVars, parserVars, catalog, ctorVars,
                 matcherVars, fixerVars, simplifyVars, mergeVars,
    reduceVars,
    batchVars,
    secretsVars,
    matchListVars,
    rotateVars,
    spotifyVars>>

nonMergeVars == <<orchVars, selVars, callerVars, parserVars, catalog, ctorVars,
                 matcherVars, fixerVars, simplifyVars, derefVars,
    reduceVars,
    batchVars,
    secretsVars,
    matchListVars,
    rotateVars,
    spotifyVars>>

nonReduceVars == <<orchVars, selVars, callerVars, parserVars, catalog, ctorVars,
    matcherVars, fixerVars, simplifyVars, derefVars, mergeVars,
    batchVars,
    secretsVars,
    matchListVars,
    rotateVars,
    spotifyVars>>

nonBatchVars == <<orchVars, selVars, callerVars, parserVars, catalog, ctorVars,
    matcherVars, fixerVars, simplifyVars, derefVars, mergeVars, reduceVars,
    secretsVars,
    matchListVars,
    rotateVars,
    spotifyVars>>

nonSecretsVars == <<orchVars, selVars, callerVars, parserVars, catalog, ctorVars,
    matcherVars, fixerVars, simplifyVars, derefVars, mergeVars, reduceVars, batchVars,
    matchListVars,
    rotateVars,
    spotifyVars>>

nonMatchListVars == <<orchVars, selVars, callerVars, parserVars, catalog, ctorVars,
    matcherVars, fixerVars, simplifyVars, derefVars, mergeVars, reduceVars, batchVars, secretsVars,
    rotateVars,
    spotifyVars>>

nonRotateVars == <<orchVars, selVars, callerVars, parserVars, catalog, ctorVars,
    matcherVars, fixerVars, simplifyVars, derefVars, mergeVars, reduceVars, batchVars, secretsVars, matchListVars,
    spotifyVars>>

nonSpotifyVars == <<orchVars, selVars, callerVars, parserVars, catalog, ctorVars,
    matcherVars, fixerVars, simplifyVars, derefVars, mergeVars, reduceVars, batchVars, secretsVars, matchListVars, rotateVars>>

vars == <<orchVars, selVars, callerVars, parserVars, catalog, ctorVars, utilVars>>

----------------------------------------------------------------------------
(* Bounds of the model *)

\* largest configured max_iterations explored
MaxIter == 2
\* the clock takes the values 0..MaxTime
MaxTime == 1
\* recorded runs stop after this many executed steps (Selector invocations)
MaxSteps == 3
\* the Selector's validation loop is followed for this many rejections
MaxRejects == 3

\* Python's None, for the Optional[int] / Optional[float] fields
None == -1

----------------------------------------------------------------------------
(* Texts *)

Contains(text, tok) == \E i \in 1..Len(text) : text[i] = tok

\* the index of the first occurrence of tok in text, 0 when there is none
RECURSIVE IndexFrom(_, _, _)
IndexFrom(text, tok, i) ==
    IF i > Len(text) THEN 0
    ELSE IF text[i] = tok THEN i
    ELSE IndexFrom(text, tok, i + 1)

IndexOf(text, tok) == IndexFrom(text, tok, 1)

\* what the Planner may return
PlanTexts ==
    { <<"Search">>,
      <<"Continue">>,
      <<"Final Answer", ":", "done">>,
      <<"Final Answer", ":", "Continue">> }

\* what the Selector may return to the orchestrator
ApiPlanTexts ==
    { <<"GET /a">>,
      <<"No API call needed.", "ans">>,
      <<"No API call needed.", "ans", "\n", "more">> }

\* what the Caller may return to the orchestrator
ExecResults == { <<"res">> }

----------------------------------------------------------------------------
(* RestGPT (model/rest_gpt.py) *)

_should_continue_mut_off_by_one(its, elapsed) ==
    IF max_iterations # None /\ its > max_iterations THEN FALSE
    ELSE IF max_execution_time # None /\ elapsed >= max_execution_time THEN FALSE
    ELSE TRUE

_should_continue(its, elapsed) ==
    IF max_iterations # None /\ its >= max_iterations THEN FALSE
    ELSE IF max_execution_time # None /\ elapsed >= max_execution_time THEN FALSE
    ELSE TRUE

RECURSIVE JoinLines(_)
JoinLines(texts) ==
    IF Len(texts) = 0 THEN <<>>
    ELSE IF Len(texts) = 1 THEN texts[1]
    ELSE texts[1] \o <<"\n">> \o JoinLines(Tail(texts))

_get_api_selector_background_mut_last_only(history) ==
    IF Len(history) = 0 THEN <<"No background">>
    ELSE history[Len(history)][2]

_get_api_selector_background(history) ==
    IF Len(history) = 0 THEN <<"No background">>
    ELSE JoinLines([i \in 1..Len(history) |-> history[i][2]])

_should_continue_plan_mut_never(p) == FALSE

_should_continue_plan(p) == Contains(p, "Continue")

_should_end(p) == Contains(p, "Final Answer")

\* re.match(r"No API call needed.(.*)", api_plan): anchored at the start
Finished(ap) == Len(ap) >= 1 /\ ap[1] = "No API call needed."

\* finished.group(1): "." stops at a line break
FinishedGroup1(ap) ==
    LET rest == Tail(ap)
        nl   == IndexOf(rest, "\n")
    IN  IF nl = 0 THEN rest ELSE SubSeq(rest, 1, nl - 1)

Count(kind) == IF track THEN [calls EXCEPT ![kind] = @ + 1] ELSE calls

OrchInit(tr) ==
    /\ pc = "start"
    /\ track = tr
    /\ max_iterations \in {None} \cup (0..MaxIter)
    /\ max_execution_time \in {None} \cup (1..MaxTime)
    /\ plan = <<>>
    /\ planner_history = <<>>
    /\ tmp_planner_history = <<>>
    /\ api_selector_history = <<>>
    /\ api_selector_background = <<>>
    /\ api_plan = <<>>
    /\ iterations = 0
    /\ time_elapsed = 0
    /\ inner = FALSE
    /\ result = <<>>
    /\ calls = [planner |-> 0, selector |-> 0, continuation |-> 0,
                caller |-> 0, body |-> 0]
    /\ planner_inputs = <<>>
    /\ selector_inputs = <<>>
    /\ caller_inputs = <<>>

\* line 143: the first Planner call
PlannerFirst ==
    /\ pc = "start"
    /\ \E p \in PlanTexts : plan' = p
    /\ pc' = "loop"
    /\ UNCHANGED nonOrchVars
    /\ calls' = Count("planner")
    /\ UNCHANGED <<track, max_iterations, max_execution_time, planner_history,
                   tmp_planner_history, api_selector_history,
                   api_selector_background, api_plan, iterations,
                   time_elapsed, inner, result>>
    /\ planner_inputs' = IF track THEN Append(planner_inputs, planner_history)
                         ELSE planner_inputs
    /\ UNCHANGED <<selector_inputs, caller_inputs>>

\* lines 146-149: the outer loop's test holds and a new iteration starts
OuterLoopEnter ==
    /\ pc = "loop"
    /\ _should_continue(iterations, time_elapsed)
    /\ tmp_planner_history' = <<plan>>
    /\ api_selector_history' = <<>>
    /\ api_selector_background' = _get_api_selector_background(planner_history)
    /\ inner' = FALSE
    /\ pc' = "select"
    /\ UNCHANGED nonOrchVars
    /\ calls' = Count("body")
    /\ UNCHANGED <<track, max_iterations, max_execution_time, plan,
                   planner_history, api_plan, iterations, time_elapsed, result>>
    /\ UNCHANGED <<planner_inputs, selector_inputs, caller_inputs>>

\* lines 146, 188: the outer loop's test fails and the run returns the plan
OuterLoopExit ==
    /\ pc = "loop"
    /\ ~ _should_continue(iterations, time_elapsed)
    /\ result' = plan
    /\ pc' = "done"
    /\ UNCHANGED nonOrchVars
    /\ UNCHANGED <<track, max_iterations, max_execution_time, plan,
                   planner_history, tmp_planner_history, api_selector_history,
                   api_selector_background, api_plan, iterations,
                   time_elapsed, inner, calls>>
    /\ UNCHANGED <<planner_inputs, selector_inputs, caller_inputs>>

SelectorInputsMutLatestPlan ==
    IF inner
    THEN [plan |-> plan,
          background |-> api_selector_background,
          continuation |-> TRUE,
          history |-> api_selector_history,
          instruction |-> plan]
    ELSE [plan |-> plan,
          background |-> api_selector_background,
          continuation |-> FALSE,
          history |-> <<>>,
          instruction |-> <<>>]

\* lines 150 and 167: the inputs of api_selector.run; the call of line 150
\* hands over neither a history nor an instruction
SelectorInputs ==
    IF inner
    THEN [plan |-> tmp_planner_history[1],
          background |-> api_selector_background,
          continuation |-> TRUE,
          history |-> api_selector_history,
          instruction |-> plan]
    ELSE [plan |-> plan,
          background |-> api_selector_background,
          continuation |-> FALSE,
          history |-> <<>>,
          instruction |-> <<>>]

\* lines 150 and 167: the Selector is run and returns an API plan
SelectorRun ==
    /\ pc = "select"
    /\ track => Len(planner_history) < MaxSteps
    /\ \E ap \in ApiPlanTexts : api_plan' = ap
    /\ pc' = "execute"
    /\ UNCHANGED nonOrchVars
    /\ calls' = IF ~track THEN calls
                ELSE IF inner
                     THEN [calls EXCEPT !.selector = @ + 1, !.continuation = @ + 1]
                     ELSE [calls EXCEPT !.selector = @ + 1]
    /\ UNCHANGED <<track, max_iterations, max_execution_time, plan,
                   planner_history, tmp_planner_history, api_selector_history,
                   api_selector_background, iterations, time_elapsed, inner,
                   result>>
    /\ selector_inputs' = IF track THEN Append(selector_inputs, SelectorInputs)
                          ELSE selector_inputs
    /\ UNCHANGED <<planner_inputs, caller_inputs>>

RecordMutPairsOpeningPlan(execution_res) ==
    /\ planner_history' =
         IF track THEN Append(planner_history, <<tmp_planner_history[1], execution_res>>)
         ELSE planner_history
    /\ api_selector_history' =
         IF track THEN Append(api_selector_history, <<plan, api_plan, execution_res>>)
         ELSE api_selector_history

\* lines 159-160 and 176-177
Record(execution_res) ==
    /\ planner_history' =
         IF track THEN Append(planner_history, <<plan, execution_res>>)
         ELSE planner_history
    /\ api_selector_history' =
         IF track THEN Append(api_selector_history, <<plan, api_plan, execution_res>>)
         ELSE api_selector_history

\* lines 155 and 172: the inputs of executor.run
CallerInputs == [api_plan |-> api_plan, background |-> api_selector_background]

\* lines 152-155 and 169-172: the plan names an API call, a Caller executes it
CallerRun ==
    /\ pc = "execute"
    /\ ~ Finished(api_plan)
    /\ \E res \in ExecResults : Record(res)
    /\ pc' = "replan"
    /\ UNCHANGED nonOrchVars
    /\ calls' = Count("caller")
    /\ UNCHANGED <<track, max_iterations, max_execution_time, plan,
                   tmp_planner_history, api_selector_background, api_plan,
                   iterations, time_elapsed, inner, result>>
    /\ caller_inputs' = IF track THEN Append(caller_inputs, CallerInputs)
                        ELSE caller_inputs
    /\ UNCHANGED <<planner_inputs, selector_inputs>>

\* lines 152, 156-157 and 169, 173-174: a direct answer, no Caller
NoApiCall ==
    /\ pc = "execute"
    /\ Finished(api_plan)
    /\ Record(FinishedGroup1(api_plan))
    /\ pc' = "replan"
    /\ UNCHANGED nonOrchVars
    /\ UNCHANGED <<track, max_iterations, max_execution_time, plan,
                   tmp_planner_history, api_selector_background, api_plan,
                   iterations, time_elapsed, inner, result, calls>>
    /\ UNCHANGED <<planner_inputs, selector_inputs, caller_inputs>>

\* lines 150, 155, 167, 172: the Selector or the Caller raises
StageRaises ==
    /\ pc \in {"select", "execute"}
    /\ pc = "execute" => ~ Finished(api_plan)
    /\ pc' = "raised"
    /\ UNCHANGED nonOrchVars
    /\ UNCHANGED <<track, max_iterations, max_execution_time, plan,
                   planner_history, tmp_planner_history, api_selector_history,
                   api_selector_background, api_plan, iterations,
                   time_elapsed, inner, result, calls>>
    /\ UNCHANGED <<planner_inputs, selector_inputs, caller_inputs>>

\* lines 162 and 179: the Planner is polled again
PlannerRun ==
    /\ pc = "replan"
    /\ \E p \in PlanTexts : plan' = p
    /\ pc' = "inner"
    /\ UNCHANGED nonOrchVars
    /\ calls' = Count("planner")
    /\ UNCHANGED <<track, max_iterations, max_execution_time, planner_history,
                   tmp_planner_history, api_selector_history,
                   api_selector_background, api_plan, iterations,
                   time_elapsed, inner, result>>
    /\ planner_inputs' = IF track THEN Append(planner_inputs, planner_history)
                         ELSE planner_inputs
    /\ UNCHANGED <<selector_inputs, caller_inputs>>

\* lines 165-166: the plan says "Continue", another round on the same step
InnerLoopEnter ==
    /\ pc = "inner"
    /\ _should_continue_plan(plan)
    /\ api_selector_background' = _get_api_selector_background(planner_history)
    /\ inner' = TRUE
    /\ pc' = "select"
    /\ UNCHANGED nonOrchVars
    /\ UNCHANGED <<track, max_iterations, max_execution_time, plan,
                   planner_history, tmp_planner_history, api_selector_history,
                   api_plan, iterations, time_elapsed, result, calls>>
    /\ UNCHANGED <<planner_inputs, selector_inputs, caller_inputs>>

\* lines 182-183, 188: the plan says "Final Answer", the run returns it
OuterBreak ==
    /\ pc = "inner"
    /\ ~ _should_continue_plan(plan)
    /\ _should_end(plan)
    /\ result' = plan
    /\ pc' = "done"
    /\ UNCHANGED nonOrchVars
    /\ UNCHANGED <<track, max_iterations, max_execution_time, plan,
                   planner_history, tmp_planner_history, api_selector_history,
                   api_selector_background, api_plan, iterations,
                   time_elapsed, inner, calls>>
    /\ UNCHANGED <<planner_inputs, selector_inputs, caller_inputs>>

\* lines 185-186: the iteration is counted and the clock is read
OuterAdvance ==
    /\ pc = "inner"
    /\ ~ _should_continue_plan(plan)
    /\ ~ _should_end(plan)
    /\ iterations' = iterations + 1
    /\ \E t \in time_elapsed..MaxTime : time_elapsed' = t
    /\ pc' = "loop"
    /\ UNCHANGED nonOrchVars
    /\ UNCHANGED <<track, max_iterations, max_execution_time, plan,
                   planner_history, tmp_planner_history, api_selector_history,
                   api_selector_background, api_plan, inner, result, calls>>
    /\ UNCHANGED <<planner_inputs, selector_inputs, caller_inputs>>

OrchNext ==
    \/ PlannerFirst
    \/ OuterLoopEnter
    \/ OuterLoopExit
    \/ SelectorRun
    \/ CallerRun
    \/ NoApiCall
    \/ StageRaises
    \/ PlannerRun
    \/ InnerLoopEnter
    \/ OuterBreak
    \/ OuterAdvance

----------------------------------------------------------------------------
(* get_matched_endpoint (utils/utils.py) *)

IsWs(tok) == tok \in {" ", "\n", "\t"}

\* str.strip() of a text
RECURSIVE LStrip(_)
LStrip(text) ==
    IF Len(text) > 0 /\ IsWs(text[1]) THEN LStrip(Tail(text)) ELSE text

RECURSIVE RStrip(_)
RStrip(text) ==
    IF Len(text) > 0 /\ IsWs(text[Len(text)])
    THEN RStrip(SubSeq(text, 1, Len(text) - 1))
    ELSE text

Strip(text) == RStrip(LStrip(text))

\* tokens that are not made of word characters (\b holds beside them)
Punctuation == {"/", "?", ":", ",", "{", "}", "[", "]", "\""}

IsWordTok(tok) == ~ IsWs(tok) /\ tok \notin Punctuation

\* the methods of the pattern on line 56
PatternMethods == {"GET", "POST", "PATCH", "DELETE", "PUT"}

\* the end of the run of whitespace that starts at i (the first index after it)
RECURSIVE SkipWs(_, _)
SkipWs(text, i) ==
    IF i <= Len(text) /\ IsWs(text[i]) THEN SkipWs(text, i + 1) ELSE i

\* the end of the run of non-whitespace that starts at i
RECURSIVE SkipNonWs(_, _)
SkipNonWs(text, i) ==
    IF i <= Len(text) /\ ~ IsWs(text[i]) THEN SkipNonWs(text, i + 1) ELSE i

\* re.findall(r"\b(GET|POST|PATCH|DELETE|PUT)\s+(/\S+)*", plan) from index i:
\* the (method, route) pairs, left to right, not overlapping
RECURSIVE FindMentions(_, _)
FindMentions(text, i) ==
    IF i > Len(text) THEN <<>>
    ELSE IF /\ text[i] \in PatternMethods
            /\ (i = 1 \/ ~ IsWordTok(text[i - 1]))
            /\ i + 1 <= Len(text)
            /\ IsWs(text[i + 1])
    THEN LET j == SkipWs(text, i + 1)
             hasRoute == /\ j + 1 <= Len(text)
                         /\ text[j] = "/"
                         /\ ~ IsWs(text[j + 1])
             e == IF hasRoute THEN SkipNonWs(text, j) ELSE j
             route == IF hasRoute THEN SubSeq(text, j, e - 1) ELSE <<>>
         IN  <<[method |-> text[i], route |-> route]>> \o FindMentions(text, e)
    ELSE FindMentions(text, i + 1)

\* route.split("?")[0]
BeforeQuery(route) ==
    LET q == IndexOf(route, "?")
    IN  IF q = 0 THEN route ELSE SubSeq(route, 1, q - 1)

\* "{method} {route}".format(...)
PlanEndpoint(m) == <<m.method, " ">> \o BeforeQuery(m.route)

\* a {param} placeholder of a catalog name
ParamToks == {"{id}", "{movie_id}"}

\* the same match with the $ left out of the pattern
RECURSIVE TemplateMatchMutNoAnchor(_, _)
TemplateMatchMutNoAnchor(pat, s) ==
    IF Len(pat) = 0 THEN TRUE
    ELSE IF Head(pat) \in ParamToks
    THEN \E k \in 1..Len(s) :
            /\ \A n \in 1..k : s[n] # "/"
            /\ TemplateMatchMutNoAnchor(Tail(pat), SubSeq(s, k + 1, Len(s)))
    ELSE /\ Len(s) > 0
         /\ Head(s) = Head(pat)
         /\ TemplateMatchMutNoAnchor(Tail(pat), Tail(s))

\* re.match(pattern, plan_endpoint), the pattern being the name with every
\* {arg} replaced by [^/]+ and a $ at the end
RECURSIVE TemplateMatch(_, _)
TemplateMatch(pat, s) ==
    IF Len(pat) = 0 THEN Len(s) = 0
    ELSE IF Head(pat) \in ParamToks
    THEN \E k \in 1..Len(s) :
            /\ \A n \in 1..k : s[n] # "/"
            /\ TemplateMatch(Tail(pat), SubSeq(s, k + 1, Len(s)))
    ELSE /\ Len(s) > 0
         /\ Head(s) = Head(pat)
         /\ TemplateMatch(Tail(pat), Tail(s))

\* the last matching name where the code takes the first
FirstTemplateMutLast(names, pe, n) ==
    LET hits == { k \in n..Len(names) : TemplateMatch(names[k], pe) }
    IN  IF hits = {} THEN <<>>
        ELSE <<names[CHOOSE k \in hits : \A j \in hits : j <= k]>>

\* lines 70-75: the first catalog name, from index n, whose pattern matches
RECURSIVE FirstTemplate(_, _, _)
FirstTemplate(names, pe, n) ==
    IF n > Len(names) THEN <<>>
    ELSE IF TemplateMatch(names[n], pe) THEN <<names[n]>>
    ELSE FirstTemplate(names, pe, n + 1)

\* lines 66-75: the catalog names matched by the mentions, in order of mention
RECURSIVE MatchAll(_, _)
MatchAll(names, mentions) ==
    IF Len(mentions) = 0 THEN <<>>
    ELSE LET pe == PlanEndpoint(Head(mentions))
             here == IF \E n \in 1..Len(names) : names[n] = pe
                     THEN <<pe>>
                     ELSE FirstTemplate(names, pe, 1)
         IN  here \o MatchAll(names, Tail(mentions))

\* the result of get_matched_endpoint: None, or a list of catalog names
NoMatch == [none |-> TRUE, list |-> <<>>]

get_matched_endpoint(names, text) ==
    LET matched_endpoints == MatchAll(names, FindMentions(text, 1))
    IN  IF Len(matched_endpoints) = 0 THEN NoMatch
        ELSE [none |-> FALSE, list |-> matched_endpoints]

\* item[0] for item in api_spec.endpoints: the catalog of the model
SpecEndpoints ==
    << <<"GET", " ", "/", "a">>,
       <<"GET", " ", "/", "m", "/", "{id}", "/", "c">>,
       <<"POST", " ", "/", "b">>,
       <<"GET", " ", "/", "search">> >>

\* docs['responses']['content']['application/json']['schema']['properties']
\* of each endpoint as reduce_openapi_spec built it: the keys (each key a
\* text), the subschemas under them being left as they are throughout
CatalogBuilt ==
    << { <<"id">> },
       { <<"cast">> },
       { <<"ok">> },
       { <<"track", "s">>, <<"artist", "s">> } >>

----------------------------------------------------------------------------
(* JSON texts and fix_json_error (utils/utils.py) *)

Quote == "\""

\* Python values: a str, a literal, a dict, a list, or None
PyNone == [k |-> "none", v |-> <<>>]

\* number and keyword tokens of a JSON text
JsonScalarToks == {"1", "2", "7", "34", "true", "false", "null"}

ParseFail == [ok |-> FALSE, val |-> <<>>, next |-> 0]

\* a string literal whose opening quote is at i: the tokens up to the next
\* quote, none of them a line break
ParseString(t, i) ==
    LET q == IndexFrom(t, Quote, i + 1)
    IN  IF q = 0 \/ Contains(SubSeq(t, i + 1, q - 1), "\n") THEN ParseFail
        ELSE [ok |-> TRUE,
              val |-> [k |-> "str", v |-> SubSeq(t, i + 1, q - 1)],
              next |-> q + 1]

RECURSIVE ParseValue(_, _)
RECURSIVE ParseMembers(_, _, _)
RECURSIVE ParseItems(_, _, _)

\* the members of an object, the first key expected at or after i
ParseMembers(t, i, acc) ==
    LET i1 == SkipWs(t, i)
    IN  IF i1 > Len(t) \/ t[i1] # Quote THEN ParseFail
        ELSE LET key == ParseString(t, i1)
                 i2  == SkipWs(t, key.next)
             IN  IF ~ key.ok \/ i2 > Len(t) \/ t[i2] # ":" THEN ParseFail
                 ELSE LET val == ParseValue(t, i2 + 1)
                          i3  == SkipWs(t, val.next)
                          all == Append(acc, [key |-> key.val.v, val |-> val.val])
                      IN  IF ~ val.ok \/ i3 > Len(t) THEN ParseFail
                          ELSE IF t[i3] = "," THEN ParseMembers(t, i3 + 1, all)
                          ELSE IF t[i3] = "}"
                          THEN [ok |-> TRUE, val |-> [k |-> "obj", v |-> all],
                                next |-> i3 + 1]
                          ELSE ParseFail

\* the elements of an array, the first expected at or after i
ParseItems(t, i, acc) ==
    LET val == ParseValue(t, i)
        i3  == SkipWs(t, val.next)
        all == Append(acc, val.val)
    IN  IF ~ val.ok \/ i3 > Len(t) THEN ParseFail
        ELSE IF t[i3] = "," THEN ParseItems(t, i3 + 1, all)
        ELSE IF t[i3] = "]"
        THEN [ok |-> TRUE, val |-> [k |-> "arr", v |-> all], next |-> i3 + 1]
        ELSE ParseFail

ParseValue(t, i) ==
    LET i1 == SkipWs(t, i)
    IN  IF i1 > Len(t) THEN ParseFail
        ELSE IF t[i1] = Quote THEN ParseString(t, i1)
        ELSE IF t[i1] = "null"
        THEN [ok |-> TRUE, val |-> PyNone, next |-> i1 + 1]
        ELSE IF t[i1] \in JsonScalarToks
        THEN [ok |-> TRUE, val |-> [k |-> "lit", v |-> <<t[i1]>>], next |-> i1 + 1]
        ELSE IF t[i1] = "{"
        THEN LET j == SkipWs(t, i1 + 1)
             IN  IF j <= Len(t) /\ t[j] = "}"
                 THEN [ok |-> TRUE, val |-> [k |-> "obj", v |-> <<>>], next |-> j + 1]
                 ELSE ParseMembers(t, j, <<>>)
        ELSE IF t[i1] = "["
        THEN LET j == SkipWs(t, i1 + 1)
             IN  IF j <= Len(t) /\ t[j] = "]"
                 THEN [ok |-> TRUE, val |-> [k |-> "arr", v |-> <<>>], next |-> j + 1]
                 ELSE ParseItems(t, j, <<>>)
        ELSE ParseFail

\* json.loads(text): ok is FALSE where it raises JSONDecodeError
JsonLoads(t) ==
    LET r == ParseValue(t, 1)
    IN  IF r.ok /\ SkipWs(t, r.next) = Len(t) + 1 THEN r ELSE ParseFail

\* str.strip(chars) for a one-character chars
RECURSIVE StripTok(_, _)
StripTok(text, tok) ==
    IF Len(text) > 0 /\ text[1] = tok THEN StripTok(Tail(text), tok)
    ELSE IF Len(text) > 0 /\ text[Len(text)] = tok
    THEN StripTok(SubSeq(text, 1, Len(text) - 1), tok)
    ELSE text

\* text.split("\n")
RECURSIVE SplitLines(_)
SplitLines(text) ==
    LET nl == IndexOf(text, "\n")
    IN  IF nl = 0 THEN <<text>>
        ELSE <<SubSeq(text, 1, nl - 1)>> \o SplitLines(SubSeq(text, nl + 1, Len(text)))

\* " ".join(lines)
RECURSIVE JoinSpace(_)
JoinSpace(lines) ==
    IF Len(lines) = 0 THEN <<>>
    ELSE IF Len(lines) = 1 THEN lines[1]
    ELSE lines[1] \o <<" ">> \o JoinSpace(Tail(lines))

Brackets == {"[", "]", "{", "}"}

EndsWith(line, toks) == Len(line) > 0 /\ line[Len(line)] \in toks

\* data[i + 1] in [']', '}', '],', '},']
ClosesNext(line) ==
    line \in { <<"]">>, <<"}">>, <<"]", ",">>, <<"}", ",">> }

\* lines 108-116 for line i: TRUE where data[i + 1] is read past the end
RepairRaises(data, i) ==
    /\ ~ (Len(data[i]) = 1 /\ data[i][1] \in Brackets)
    /\ ~ EndsWith(data[i], Brackets)
    /\ i = Len(data)

\* lines 108-116 for line i, where they do not raise
RepairLine(data, i) ==
    LET line == data[i]
    IN  IF Len(line) = 1 /\ line[1] \in Brackets THEN line
        ELSE IF EndsWith(line, Brackets) THEN line
        ELSE IF ~ EndsWith(line, {","}) /\ ~ ClosesNext(data[i + 1])
        THEN line \o <<",">>
        ELSE IF ClosesNext(data[i + 1]) /\ EndsWith(line, {","})
        THEN SubSeq(line, 1, Len(line) - 1)
        ELSE line

\* the same function with the try of lines 101-103 left out
fix_json_error_mut_always_repairs(text) ==
    LET data0 == StripTok(StripTok(StripTok(Strip(text), Quote), ","), "BACKTICK")
        lines == SplitLines(data0)
        data  == [i \in 1..Len(lines) |-> Strip(lines[i])]
    IN  IF \E i \in 1..Len(data) : RepairRaises(data, i)
        THEN [raised |-> TRUE, data |-> <<>>]
        ELSE [raised |-> FALSE,
              data |-> JoinSpace([i \in 1..Len(data) |-> RepairLine(data, i)])]

\* fix_json_error(data) with return_str=True: raised where IndexError escapes
fix_json_error(text) ==
    LET data0 == StripTok(StripTok(StripTok(Strip(text), Quote), ","), "BACKTICK")
        lines == SplitLines(data0)
        data  == [i \in 1..Len(lines) |-> Strip(lines[i])]
    IN  IF JsonLoads(data0).ok THEN [raised |-> FALSE, data |-> data0]
        ELSE IF \E i \in 1..Len(data) : RepairRaises(data, i)
        THEN [raised |-> TRUE, data |-> <<>>]
        ELSE [raised |-> FALSE,
              data |-> JoinSpace([i \in 1..Len(data) |-> RepairLine(data, i)])]

----------------------------------------------------------------------------
(* APISelector (model/api_selector.py) *)

\* one attempt more than line 174 allows
RetryTriesPlusOne == 3 + 1

\* the retry decorator's arguments on line 174
RetryTries == 3
RetryDelay == 15
RetryBackoff == 2

NumberToks == {"1", "2", "3", "4"}

NumberTok(n) == <<"1", "2", "3", "4">>[n]

\* llm_prefix.format(n)
LlmPrefix(n) == <<"API calling", " ", NumberTok(n), ":", " ">>

ObservationPrefix == <<"API response", ":", " ">>

\* lines 160-172
RECURSIVE ScratchpadFrom(_, _)
ScratchpadFrom(history, i) ==
    IF i > Len(history) THEN <<>>
    ELSE (IF i # 1 THEN <<"Instruction", ":", " ">> \o history[i][1] \o <<"\n">>
          ELSE <<>>)
         \o LlmPrefix(i) \o history[i][2] \o <<"\n">>
         \o ObservationPrefix \o history[i][3] \o <<"\n">>
         \o ScratchpadFrom(history, i + 1)

_construct_scratchpad(history, instruction) ==
    IF Len(history) = 0 THEN <<>>
    ELSE ScratchpadFrom(history, 1)
         \o <<"Instruction", ":", " ">> \o instruction \o <<"\n">>

\* re.sub(r"API calling \d+: ", "", text)
RECURSIVE StripCalling(_)
StripCalling(text) ==
    IF Len(text) = 0 THEN <<>>
    ELSE IF /\ Len(text) >= 5
            /\ text[1] = "API calling"
            /\ text[2] = " "
            /\ text[3] \in NumberToks
            /\ text[4] = ":"
            /\ text[5] = " "
    THEN StripCalling(SubSeq(text, 6, Len(text)))
    ELSE <<Head(text)>> \o StripCalling(Tail(text))

\* lines 187-188 and 203-204
ApiPlanOf(output) == Strip(StripCalling(output))

NotInListNote ==
    <<"\n",
      "The API you called is not in the list of available APIs. Please use another API.",
      "\n">>

\* what the Selector's LLM may answer
SelCompletions ==
    { <<"API calling", " ", "1", ":", " ", "GET", " ", "/", "a">>,
      <<"GET", " ", "/", "m", "/", "7", "/", "c", "\n">>,
      <<"GET", " ", "/", "zz">>,
      <<"Use", " ", "search">>,
      <<"No API call needed.", " ", "ans">>,
      <<"GET", " ", "/", "a", " ", "and", " ", "POST", " ", "/", "b">> }

\* the inputs of a Selector call: without and with a history
SelInputs ==
    { [has_history |-> FALSE, history |-> <<>>, instruction |-> <<>>],
      [has_history |-> TRUE,
       history |-> << << <<"Search">>, <<"GET", " ", "/", "a">>, <<"res">> >> >>,
       instruction |-> <<"Continue">>] }

SelIdle ==
    /\ sel_pc = "idle"
    /\ sel_inputs = [has_history |-> FALSE, history |-> <<>>, instruction |-> <<>>]
    /\ scratchpad = <<>>
    /\ api_selector_chain_output = <<>>
    /\ sel_api_plan = <<>>
    /\ sel_result = <<>>
    /\ sel_outputs = <<>>
    /\ retry_tries = 0
    /\ retry_delay = 0
    /\ sleeps = <<>>

\* the decorated _call is entered: retry's _tries, _delay = tries, delay
SelInit ==
    /\ sel_pc = "call"
    /\ sel_inputs \in SelInputs
    /\ scratchpad = <<>>
    /\ api_selector_chain_output = <<>>
    /\ sel_api_plan = <<>>
    /\ sel_result = <<>>
    /\ sel_outputs = <<>>
    /\ retry_tries = RetryTries
    /\ retry_delay = RetryDelay
    /\ sleeps = <<>>

\* lines 177-183: an attempt starts and builds its scratchpad
SelCall ==
    /\ sel_pc = "call"
    /\ scratchpad' = IF sel_inputs.has_history
                     THEN _construct_scratchpad(sel_inputs.history,
                                                sel_inputs.instruction)
                     ELSE <<>>
    /\ sel_outputs' = <<>>
    /\ sel_pc' = "llm"
    /\ UNCHANGED <<sel_inputs, api_selector_chain_output, sel_api_plan,
                   sel_result, retry_tries, retry_delay, sleeps>>
    /\ UNCHANGED nonSelVars

\* lines 184-188: the first completion
SelFirstCompletion ==
    /\ sel_pc = "llm"
    /\ \E c \in SelCompletions :
          /\ api_selector_chain_output' = c
          /\ sel_api_plan' = ApiPlanOf(c)
          /\ sel_outputs' = Append(sel_outputs, c)
    /\ sel_pc' = "finish"
    /\ UNCHANGED <<sel_inputs, scratchpad, sel_result, retry_tries,
                   retry_delay, sleeps>>
    /\ UNCHANGED nonSelVars

\* lines 192-194: a direct answer is returned
SelDirectAnswer ==
    /\ sel_pc = "finish"
    /\ Finished(sel_api_plan)
    /\ sel_result' = sel_api_plan
    /\ sel_pc' = "returned"
    /\ UNCHANGED <<sel_inputs, scratchpad, api_selector_chain_output,
                   sel_api_plan, sel_outputs, retry_tries, retry_delay, sleeps>>
    /\ UNCHANGED nonSelVars

\* lines 192-193: not a direct answer, on to the validation loop
SelNotDirect ==
    /\ sel_pc = "finish"
    /\ ~ Finished(sel_api_plan)
    /\ sel_pc' = "while"
    /\ UNCHANGED <<sel_inputs, scratchpad, api_selector_chain_output,
                   sel_api_plan, sel_result, sel_outputs, retry_tries,
                   retry_delay, sleeps>>
    /\ UNCHANGED nonSelVars

\* a loop that gives up after one rejection
SelLoopTestCapped ==
    /\ get_matched_endpoint(SpecEndpoints, sel_api_plan).none
    /\ Len(sel_outputs) < 2

\* the loop test of line 196
SelLoopTest == get_matched_endpoint(SpecEndpoints, sel_api_plan).none

\* lines 196-200: no endpoint matched, the note goes to the scratchpad
SelReject ==
    /\ sel_pc = "while"
    /\ SelLoopTest
    /\ Len(sel_outputs) <= MaxRejects
    /\ scratchpad' = scratchpad \o api_selector_chain_output \o NotInListNote
    /\ sel_pc' = "again"
    /\ UNCHANGED <<sel_inputs, api_selector_chain_output, sel_api_plan,
                   sel_result, sel_outputs, retry_tries, retry_delay, sleeps>>
    /\ UNCHANGED nonSelVars

\* lines 201-204: the LLM is asked again
SelNextCompletion ==
    /\ sel_pc = "again"
    /\ \E c \in SelCompletions :
          /\ api_selector_chain_output' = c
          /\ sel_api_plan' = ApiPlanOf(c)
          /\ sel_outputs' = Append(sel_outputs, c)
    /\ sel_pc' = "while"
    /\ UNCHANGED <<sel_inputs, scratchpad, sel_result, retry_tries,
                   retry_delay, sleeps>>
    /\ UNCHANGED nonSelVars

\* lines 196, 207: an endpoint matched, the plan is returned
SelReturn ==
    /\ sel_pc = "while"
    /\ ~ SelLoopTest
    /\ sel_result' = sel_api_plan
    /\ sel_pc' = "returned"
    /\ UNCHANGED <<sel_inputs, scratchpad, api_selector_chain_output,
                   sel_api_plan, sel_outputs, retry_tries, retry_delay, sleeps>>
    /\ UNCHANGED nonSelVars

\* line 174: a completion call (line 184 or 201) raises RateLimitError; the
\* decorator counts the attempt and either re-raises or sleeps and calls again
SelRateLimit ==
    /\ sel_pc \in {"llm", "again"}
    /\ retry_tries' = retry_tries - 1
    /\ IF retry_tries' = 0
       THEN /\ sel_pc' = "raised"
            /\ UNCHANGED <<sleeps, retry_delay>>
       ELSE /\ sleeps' = Append(sleeps, retry_delay)
            /\ retry_delay' = retry_delay * RetryBackoff
            /\ sel_pc' = "call"
    /\ UNCHANGED <<sel_inputs, scratchpad, api_selector_chain_output,
                   sel_api_plan, sel_result, sel_outputs>>
    /\ UNCHANGED nonSelVars

SelNext ==
    \/ SelCall
    \/ SelFirstCompletion
    \/ SelDirectAnswer
    \/ SelNotDirect
    \/ SelReject
    \/ SelNextCompletion
    \/ SelReturn
    \/ SelRateLimit

----------------------------------------------------------------------------
(* Caller (model/caller.py) *)

\* largest Caller.max_iterations explored, and the number of turns a Caller
\* run is followed for
MaxCallerIter == 2

PyStr(toks) == [k |-> "str", v |-> toks]

\* key in data
HasKey(data, key) == \E n \in 1..Len(data.v) : data.v[n].key = <<key>>

\* data.get(key, default): the value of the last member written with the key
GetOr(data, key, default) ==
    IF HasKey(data, key)
    THEN LET n == CHOOSE m \in 1..Len(data.v) :
                     /\ data.v[m].key = <<key>>
                     /\ \A l \in (m + 1)..Len(data.v) : data.v[l].key # <<key>>
         IN  data.v[n].val
    ELSE default

\* the index of the last occurrence of tok in text, 0 when there is none
LastIndexOf(text, tok) ==
    IF Contains(text, tok)
    THEN CHOOSE i \in 1..Len(text) :
            text[i] = tok /\ \A j \in (i + 1)..Len(text) : text[j] # tok
    ELSE 0

Caller_should_continue_mut_off_by_one(max_its, max_time, its, elapsed) ==
    IF max_its # None /\ its > max_its THEN FALSE
    ELSE IF max_time # None /\ elapsed >= max_time THEN FALSE
    ELSE TRUE

\* Caller._should_continue
Caller_should_continue(max_its, max_time, its, elapsed) ==
    IF max_its # None /\ its >= max_its THEN FALSE
    ELSE IF max_time # None /\ elapsed >= max_time THEN FALSE
    ELSE TRUE

Caller_construct_scratchpad_mut_forgets(history) == <<>>

\* Caller._construct_scratchpad
RECURSIVE Caller_construct_scratchpad(_)
Caller_construct_scratchpad(history) ==
    IF Len(history) = 0 THEN <<>>
    ELSE <<"Thought: ">> \o history[1][1] \o <<"\n">>
         \o <<"Response: ">> \o history[1][2] \o <<"\n">>
         \o Caller_construct_scratchpad(Tail(history))

CallerMethods == {"GET", "POST", "DELETE", "PUT"}

\* llm_output.split("Execution Result:")[-1].strip()
AfterLastMarker(llm_output) ==
    Strip(SubSeq(llm_output, LastIndexOf(llm_output, "Execution Result:") + 1,
                 Len(llm_output)))

\* Caller._get_action_and_input: a terminal result, an action with its
\* repaired input, or the exception that escapes
_get_action_and_input(llm_output) ==
    LET i == IndexOf(llm_output, "Operation:")
        j == IF i = 0 THEN 0 ELSE IndexFrom(llm_output, "Input:", i + 1)
        act == Strip(SubSeq(llm_output, i + 1, j - 1))
        group2 == SubSeq(llm_output, SkipWs(llm_output, j + 1), Len(llm_output))
        fixed == fix_json_error(group2)
        raise(e) == [kind |-> "raise", action |-> <<>>, action_input |-> <<>>,
                     error |-> e]
    IN  IF Contains(llm_output, "Execution Result:")
        THEN [kind |-> "return", action |-> <<"Execution Result">>,
              action_input |-> AfterLastMarker(llm_output), error |-> ""]
        ELSE IF i = 0 \/ j = 0 THEN raise("ValueError")
        ELSE IF ~ (Len(act) = 1 /\ act[1] \in CallerMethods)
        THEN raise("NotImplementedError")
        ELSE IF fixed.raised THEN raise("IndexError")
        ELSE [kind |-> "return", action |-> act, action_input |-> fixed.data,
              error |-> ""]

\* lines 198-201: action_input[left_bracket:right_bracket + 1] after the
\* strips, find and rfind giving -1 where there is no brace
OutermostBraces(input) ==
    LET s == StripTok(Strip(input), "BACKTICK")
        l == IndexOf(s, "{")
        r == LastIndexOf(s, "}")
    IN  IF l # 0 THEN SubSeq(s, l, r)
        ELSE IF r # 0 /\ r = Len(s) THEN <<"}">>
        ELSE <<>>

\* the answers of the target service: a status and a body
OkBody == <<"{", Quote, "id", Quote, ":", " ", "7", "}">>

\* error bodies, spelled character by character
ErrorBody5 == <<"e", "r", "r", "o", "r">>

ErrorBody9 == <<"N", "o", "t", " ", "F", "o", "u", "n", "d">>

HttpResponses ==
    { [status_code |-> 200, text |-> OkBody],
      [status_code |-> 201, text |-> OkBody],
      [status_code |-> 404, text |-> ErrorBody9],
      [status_code |-> 500, text |-> ErrorBody5] }

NoResponse == [status_code |-> 0, text |-> <<>>]

\* what line 290 binds: response, params, request_body, desc, query
NoTurn == [response |-> <<>>, params |-> PyNone, request_body |-> PyNone,
           desc |-> PyNone, query |-> PyNone]

\* Caller._get_response once the input has parsed to data and the service has
\* answered with resp: the 5-tuple, or the bare text of a non-200 answer
_get_response(act, data, resp) ==
    LET desc   == GetOr(data, "description", PyStr(<<"No description">>))
        query  == GetOr(data, "output_instructions", PyNone)
        params == IF act = <<"GET">> /\ ~ HasKey(data, "params") THEN PyNone
                  ELSE GetOr(data, "params", PyNone)
        request_body == IF act = <<"GET">> THEN PyNone
                        ELSE GetOr(data, "data", PyNone)
    IN  IF resp.status_code # 200
        THEN [tuple |-> FALSE, text |-> resp.text, value |-> NoTurn]
        ELSE [tuple |-> TRUE, text |-> <<>>,
              value |-> [response |-> resp.text, params |-> params,
                         request_body |-> request_body, desc |-> desc,
                         query |-> query]]

\* line 290: the five names bound from what _get_response returned; a str
\* unpacks character by character
Unpack(ret) ==
    IF ret.tuple THEN [ok |-> TRUE, value |-> ret.value]
    ELSE IF Len(ret.text) = 5
    THEN [ok |-> TRUE,
          value |-> [response |-> <<ret.text[1]>>,
                     params |-> PyStr(<<ret.text[2]>>),
                     request_body |-> PyStr(<<ret.text[3]>>),
                     desc |-> PyStr(<<ret.text[4]>>),
                     query |-> PyStr(<<ret.text[5]>>)]]
    ELSE [ok |-> FALSE, value |-> NoTurn]

\* api_spec.servers[0]['url']
ApiUrl == "https://api"

\* url.replace(api_url, '')
RECURSIVE RemoveTok(_, _)
RemoveTok(text, tok) ==
    IF Len(text) = 0 THEN <<>>
    ELSE IF Head(text) = tok THEN RemoveTok(Tail(text), tok)
    ELSE <<Head(text)>> \o RemoveTok(Tail(text), tok)

\* lines 292-293: the catalog name of the endpoint just called, or the
\* exception that escapes
CalledEndpoint(act, input) ==
    LET parsed == JsonLoads(input)
        url == GetOr(parsed.val, "url", PyNone)
        m == get_matched_endpoint(SpecEndpoints,
                                  act \o <<" ">> \o RemoveTok(url.v, ApiUrl))
    IN  IF ~ parsed.ok THEN [ok |-> FALSE, name |-> <<>>, error |-> "JSONDecodeError"]
        ELSE IF parsed.val.k # "obj"
        THEN [ok |-> FALSE, name |-> <<>>, error |-> "TypeError"]
        ELSE IF ~ HasKey(parsed.val, "url")
        THEN [ok |-> FALSE, name |-> <<>>, error |-> "KeyError"]
        ELSE IF url.k # "str"
        THEN [ok |-> FALSE, name |-> <<>>, error |-> "AttributeError"]
        ELSE IF m.none THEN [ok |-> FALSE, name |-> <<>>, error |-> "TypeError"]
        ELSE [ok |-> TRUE, name |-> m.list[1], error |-> ""]

\* a JSON string literal and a member "key": value
Str(toks) == <<Quote>> \o toks \o <<Quote>>

Member(key, value) == Str(<<key>>) \o <<":", " ">> \o value

\* an LLM turn "Operation: <method>\nInput: <input>"
Turn(method, input) ==
    <<"Thought:", " ", "call", "\n", "Operation:", " ", method, "\n",
      "Input:", " ">> \o input

InputGetA ==
    <<"{">> \o Member("url", Str(<<ApiUrl, "/", "a">>)) \o <<",", " ">>
    \o Member("description", Str(<<"d">>)) \o <<",", " ">>
    \o Member("output_instructions", Str(<<"q">>)) \o <<"}">>

\* written on several lines without the commas between the members
InputGetM ==
    <<"{", "\n", " ">> \o Member("url", Str(<<ApiUrl, "/", "m", "/", "7", "/", "c">>))
    \o <<"\n", " ">> \o Member("params", <<"{">> \o Member("page", <<"1">>) \o <<"}">>)
    \o <<"\n", "}">>

InputPostB ==
    <<"{">> \o Member("url", Str(<<ApiUrl, "/", "b">>)) \o <<",", " ">>
    \o Member("data", <<"{">> \o Member("name", Str(<<"x">>)) \o <<"}">>)
    \o <<"}">>

\* a member without its colon
InputBadMember ==
    <<"{", "\n">> \o Str(<<"url">>) \o <<" ">> \o Str(<<ApiUrl, "/", "a">>)
    \o <<"\n", "}">>

InputGetZ == <<"{">> \o Member("url", Str(<<ApiUrl, "/", "zz">>)) \o <<"}">>

InputNoUrl == <<"{">> \o Member("description", Str(<<"d">>)) \o <<"}">>

\* searches of the music service: the type in the url, in the params, nowhere
InputSearchUrl ==
    <<"{">> \o Member("url", Str(<<ApiUrl, "/", "search", "?", "q", "=", "x", "&",
                                    "type", "=", "track">>)) \o <<"}">>

InputSearchParams ==
    <<"{">> \o Member("url", Str(<<ApiUrl, "/", "search">>)) \o <<",", " ">>
    \o Member("params", <<"{">> \o Member("q", Str(<<"x">>)) \o <<",", " ">>
                         \o Member("type", Str(<<"artist">>)) \o <<"}">>)
    \o <<"}">>

InputSearchNoType ==
    <<"{">> \o Member("url", Str(<<ApiUrl, "/", "search", "?", "q", "=", "x">>))
    \o <<"}">>

SearchTurns ==
    { Turn("GET", InputSearchUrl), Turn("GET", InputSearchParams),
      Turn("GET", InputSearchNoType) }

\* the turns whose request can be dispatched
GoodTurns ==
    { Turn("GET", InputGetA), Turn("GET", InputGetM), Turn("POST", InputPostB) }

\* what the Caller's LLM may complete a turn with
CallerCompletions ==
    GoodTurns \cup SearchTurns \cup
    { <<"Execution Result:", " ", "done">>,
      Turn("GET", InputGetA) \o <<"\n", "Execution Result:", " ", "done", "\n">>,
      Turn("PATCH", InputGetA),
      <<"I", " ", "cannot">>,
      Turn("GET", InputGetA \o <<"\n", "That", " ", "is", " ", "all">>),
      Turn("GET", InputBadMember),
      Turn("GET", InputGetZ),
      Turn("GET", InputNoUrl) }

\* the plans the Caller may be run with
CallerPlans ==
    { <<"GET", " ", "/", "a">>,
      <<"GET", " ", "/", "search">>,
      <<"GET", " ", "/", "a", " ", "and", " ", "POST", " ", "/", "b">>,
      <<"Use", " ", "search">> }

\* what the Response Parser may return
ParsingResults == { <<"parsed">> }

\* caller_chain_output before the first completion
Unbound == <<"<unbound>">>

\* the name of the music service's search endpoint (line 296)
SearchEndpoint == <<"GET", " ", "/", "search">>

\* the index in the catalog of an endpoint name
EndpointIndex(name) == CHOOSE n \in 1..Len(SpecEndpoints) : SpecEndpoints[n] = name

\* url.split('&')
RECURSIVE SplitAmp(_)
SplitAmp(text) ==
    LET k == IndexOf(text, "&")
    IN  IF k = 0 THEN <<text>>
        ELSE <<SubSeq(text, 1, k - 1)>> \o SplitAmp(SubSeq(text, k + 1, Len(text)))

\* 'type=' in param
HasTypeEq(param) ==
    \E k \in 1..(Len(param) - 1) : param[k] = "type" /\ param[k + 1] = "="

\* lines 300-304: the first piece of the url holding 'type=', from index k
RECURSIVE FirstTypeParam(_, _)
FirstTypeParam(pieces, k) ==
    IF k > Len(pieces) THEN [bound |-> FALSE, name |-> <<>>]
    ELSE IF HasTypeEq(pieces[k])
    THEN [bound |-> TRUE,
          name |-> SubSeq(pieces[k], LastIndexOf(pieces[k], "=") + 1, Len(pieces[k]))
                   \o <<"s">>]
    ELSE FirstTypeParam(pieces, k + 1)

\* lines 297-304: search_type, unbound where no type is found
SearchType(params, input) ==
    IF params.k = "obj" /\ HasKey(params, "type")
    THEN [bound |-> TRUE, name |-> GetOr(params, "type", PyNone).v \o <<"s">>]
    ELSE FirstTypeParam(SplitAmp(GetOr(JsonLoads(input).val, "url", PyNone).v), 1)

NoParserInputs ==
    [query |-> PyNone, response_description |-> PyNone,
     api_param |-> [params |-> PyNone, data |-> PyNone], json |-> <<>>]

CallerFresh ==
    /\ c_api_plan = <<>>
    /\ endpoint_name = <<>>
    /\ c_iterations = 0
    /\ c_time_elapsed = 0
    /\ intermediate_steps = <<>>
    /\ c_scratchpad = <<>>
    /\ caller_chain_output = Unbound
    /\ action = <<>>
    /\ action_input = <<>>
    /\ http_response = NoResponse
    /\ turn = NoTurn
    /\ called_endpoint_name = <<>>
    /\ parser_inputs = NoParserInputs
    /\ c_result = <<>>
    /\ c_error = ""
    /\ c_calls = [llm |-> 0, http |-> 0, parser |-> 0]

\* no Caller is running
CallerIdle ==
    /\ c_pc = "idle"
    /\ c_scenario = "tmdb"
    /\ c_max_iterations = None
    /\ c_max_execution_time = None
    /\ CallerFresh

\* lines 244-247 of Caller._call, over the configurations explored
CallerInit ==
    /\ c_pc = "setup"
    /\ c_scenario \in {"tmdb", "spotify"}
    /\ c_max_iterations \in {None} \cup 0..MaxCallerIter
    /\ c_max_execution_time \in {None} \cup 1..MaxTime
    /\ CallerFresh

CallerRaise(e) ==
    /\ c_pc' = "raised"
    /\ c_error' = e

\* lines 249-255: the plan must resolve to exactly one endpoint
CallerSetup ==
    /\ c_pc = "setup"
    /\ \E p \in CallerPlans :
          LET matched_endpoints == get_matched_endpoint(SpecEndpoints, p)
          IN  /\ c_api_plan' = p
              /\ IF matched_endpoints.none
                 THEN CallerRaise("TypeError") /\ UNCHANGED endpoint_name
                 ELSE IF Len(matched_endpoints.list) # 1
                 THEN CallerRaise("AssertionError") /\ UNCHANGED endpoint_name
                 ELSE /\ endpoint_name' = matched_endpoints.list[1]
                      /\ c_pc' = "loop"
                      /\ UNCHANGED c_error
    /\ UNCHANGED <<c_max_iterations, c_max_execution_time, c_iterations,
                   c_time_elapsed, intermediate_steps, c_scratchpad,
                   caller_chain_output, action, action_input, http_response,
                   turn, called_endpoint_name, parser_inputs, c_result, c_calls>>
    /\ UNCHANGED <<c_scenario, catalog>>
    /\ UNCHANGED nonCallerVars

\* line 282, the test holding; line 283
CallerLoopEnter ==
    /\ c_pc = "loop"
    /\ Caller_should_continue(c_max_iterations, c_max_execution_time,
                              c_iterations, c_time_elapsed)
    /\ c_iterations < MaxCallerIter
    /\ c_scratchpad' = Caller_construct_scratchpad(intermediate_steps)
    /\ c_pc' = "llm"
    /\ UNCHANGED <<c_max_iterations, c_max_execution_time, c_api_plan,
                   endpoint_name, c_iterations, c_time_elapsed,
                   intermediate_steps, caller_chain_output, action,
                   action_input, http_response, turn, called_endpoint_name,
                   parser_inputs, c_result, c_error, c_calls>>
    /\ UNCHANGED <<c_scenario, catalog>>
    /\ UNCHANGED nonCallerVars

\* line 282, the test failing; line 332
CallerLoopExit ==
    /\ c_pc = "loop"
    /\ ~ Caller_should_continue(c_max_iterations, c_max_execution_time,
                                c_iterations, c_time_elapsed)
    /\ IF caller_chain_output = Unbound
       THEN CallerRaise("UnboundLocalError") /\ UNCHANGED c_result
       ELSE /\ c_pc' = "returned"
            /\ c_result' = caller_chain_output
            /\ UNCHANGED c_error
    /\ UNCHANGED <<c_max_iterations, c_max_execution_time, c_api_plan,
                   endpoint_name, c_iterations, c_time_elapsed,
                   intermediate_steps, c_scratchpad, caller_chain_output,
                   action, action_input, http_response, turn,
                   called_endpoint_name, parser_inputs, c_calls>>
    /\ UNCHANGED <<c_scenario, catalog>>
    /\ UNCHANGED nonCallerVars

\* line 284: one completion of the Caller's LLM
CallerLlm ==
    /\ c_pc = "llm"
    /\ \E text \in CallerCompletions : caller_chain_output' = text
    /\ c_calls' = [c_calls EXCEPT !.llm = @ + 1]
    /\ c_pc' = "parse"
    /\ UNCHANGED <<c_max_iterations, c_max_execution_time, c_api_plan,
                   endpoint_name, c_iterations, c_time_elapsed,
                   intermediate_steps, c_scratchpad, action, action_input,
                   http_response, turn, called_endpoint_name, parser_inputs,
                   c_result, c_error>>
    /\ UNCHANGED <<c_scenario, catalog>>
    /\ UNCHANGED nonCallerVars

\* lines 287-289
CallerParse ==
    /\ c_pc = "parse"
    /\ LET r == _get_action_and_input(caller_chain_output)
       IN  IF r.kind = "raise"
           THEN CallerRaise(r.error) /\ UNCHANGED <<action, action_input, c_result>>
           ELSE /\ action' = r.action
                /\ action_input' = r.action_input
                /\ UNCHANGED c_error
                /\ IF r.action = <<"Execution Result">>
                   THEN c_pc' = "returned" /\ c_result' = r.action_input
                   ELSE c_pc' = "request" /\ UNCHANGED c_result
    /\ UNCHANGED <<c_max_iterations, c_max_execution_time, c_api_plan,
                   endpoint_name, c_iterations, c_time_elapsed,
                   intermediate_steps, c_scratchpad, caller_chain_output,
                   http_response, turn, called_endpoint_name, parser_inputs,
                   c_calls>>
    /\ UNCHANGED <<c_scenario, catalog>>
    /\ UNCHANGED nonCallerVars

\* line 290 where _get_response raises before any request is sent: the
\* outermost {...} does not parse, or it names no url
CallerBadInput ==
    /\ c_pc = "request"
    /\ LET data == JsonLoads(OutermostBraces(action_input))
       IN  \/ ~ data.ok /\ CallerRaise("JSONDecodeError")
           \/ /\ data.ok
              /\ ~ HasKey(data.val, "url")
              /\ CallerRaise(IF action = <<"GET">> THEN "MissingSchema"
                             ELSE "KeyError")
    /\ UNCHANGED <<c_max_iterations, c_max_execution_time, c_api_plan,
                   endpoint_name, c_iterations, c_time_elapsed,
                   intermediate_steps, c_scratchpad, caller_chain_output,
                   action, action_input, http_response, turn,
                   called_endpoint_name, parser_inputs, c_result, c_calls>>
    /\ UNCHANGED <<c_scenario, catalog>>
    /\ UNCHANGED nonCallerVars

\* line 290: the request is sent, the service answers, and what
\* _get_response returns is unpacked into five names
CallerRequest ==
    /\ c_pc = "request"
    /\ LET data == JsonLoads(OutermostBraces(action_input))
       IN  /\ data.ok
           /\ HasKey(data.val, "url")
           /\ \E resp \in HttpResponses :
                 LET u == Unpack(_get_response(action, data.val, resp))
                 IN  /\ http_response' = resp
                     /\ IF u.ok
                        THEN /\ turn' = u.value
                             /\ c_pc' = "resolve"
                             /\ UNCHANGED c_error
                        ELSE CallerRaise("ValueError") /\ UNCHANGED turn
    /\ c_calls' = [c_calls EXCEPT !.http = @ + 1]
    /\ UNCHANGED <<c_max_iterations, c_max_execution_time, c_api_plan,
                   endpoint_name, c_iterations, c_time_elapsed,
                   intermediate_steps, c_scratchpad, caller_chain_output,
                   action, action_input, called_endpoint_name, parser_inputs,
                   c_result>>
    /\ UNCHANGED <<c_scenario, catalog>>
    /\ UNCHANGED nonCallerVars

\* lines 292-305: the endpoint just called is resolved and its document is
\* taken from the catalog (by reference); for the music service's search
\* endpoint the document's success schema is narrowed to the searched type
CallerResolve ==
    /\ c_pc = "resolve"
    /\ LET r == CalledEndpoint(action, action_input)
           narrow == c_scenario = "spotify" /\ endpoint_name = SearchEndpoint
           st == SearchType(turn.params, action_input)
           n == EndpointIndex(r.name)
       IN  IF ~ r.ok
           THEN CallerRaise(r.error) /\ UNCHANGED <<called_endpoint_name, catalog>>
           ELSE /\ called_endpoint_name' = r.name
                /\ IF ~ narrow
                   THEN c_pc' = "parser" /\ UNCHANGED <<c_error, catalog>>
                   ELSE IF ~ st.bound
                   THEN CallerRaise("UnboundLocalError") /\ UNCHANGED catalog
                   ELSE IF st.name \notin catalog[n]
                   THEN CallerRaise("KeyError") /\ UNCHANGED catalog
                   ELSE /\ catalog' = [catalog EXCEPT ![n] = {st.name}]
                        /\ c_pc' = "parser"
                        /\ UNCHANGED c_error
    /\ UNCHANGED <<c_max_iterations, c_max_execution_time, c_api_plan,
                   endpoint_name, c_iterations, c_time_elapsed,
                   intermediate_steps, c_scratchpad, caller_chain_output,
                   action, action_input, http_response, turn, parser_inputs,
                   c_result, c_calls>>
    /\ UNCHANGED c_scenario
    /\ UNCHANGED nonCallerVars

\* lines 320-323
ParamsOrData(t) ==
    [params |-> IF t.params.k # "none" THEN t.params
                ELSE PyStr(<<"No parameters">>),
     data |-> IF t.request_body.k # "none" THEN t.request_body
              ELSE PyStr(<<"No request body">>)]

\* lines 307-330: the parser runs and the turn is recorded
CallerParser ==
    /\ c_pc = "parser"
    /\ parser_inputs' = [query |-> turn.query, response_description |-> turn.desc,
                         api_param |-> ParamsOrData(turn), json |-> turn.response]
    /\ c_calls' = [c_calls EXCEPT !.parser = @ + 1]
    /\ \E parsing_res \in ParsingResults :
          intermediate_steps' =
              Append(intermediate_steps, <<caller_chain_output, parsing_res>>)
    /\ c_iterations' = c_iterations + 1
    /\ \E t \in c_time_elapsed..MaxTime : c_time_elapsed' = t
    /\ c_pc' = "loop"
    /\ UNCHANGED <<c_max_iterations, c_max_execution_time, c_api_plan,
                   endpoint_name, c_scratchpad, caller_chain_output, action,
                   action_input, http_response, turn, called_endpoint_name,
                   c_result, c_error>>
    /\ UNCHANGED <<c_scenario, catalog>>
    /\ UNCHANGED nonCallerVars

\* line 324 where the parser raises
CallerParserRaises ==
    /\ c_pc = "parser"
    /\ parser_inputs' = [query |-> turn.query, response_description |-> turn.desc,
                         api_param |-> ParamsOrData(turn), json |-> turn.response]
    /\ c_calls' = [c_calls EXCEPT !.parser = @ + 1]
    /\ CallerRaise("ParserError")
    /\ UNCHANGED <<c_max_iterations, c_max_execution_time, c_api_plan,
                   endpoint_name, c_iterations, c_time_elapsed,
                   intermediate_steps, c_scratchpad, caller_chain_output,
                   action, action_input, http_response, turn,
                   called_endpoint_name, c_result>>
    /\ UNCHANGED <<c_scenario, catalog>>
    /\ UNCHANGED nonCallerVars

\* the orchestrator runs the Caller again (rest_gpt.py, lines 155 and 172):
\* a new run with fresh locals over the same api_spec
CallerAgain ==
    /\ c_pc \in {"returned", "raised"}
    /\ c_pc' = "setup"
    /\ c_api_plan' = <<>>
    /\ endpoint_name' = <<>>
    /\ c_iterations' = 0
    /\ c_time_elapsed' = 0
    /\ intermediate_steps' = <<>>
    /\ c_scratchpad' = <<>>
    /\ caller_chain_output' = Unbound
    /\ action' = <<>>
    /\ action_input' = <<>>
    /\ http_response' = NoResponse
    /\ turn' = NoTurn
    /\ called_endpoint_name' = <<>>
    /\ parser_inputs' = NoParserInputs
    /\ c_result' = <<>>
    /\ c_error' = ""
    /\ c_calls' = [llm |-> 0, http |-> 0, parser |-> 0]
    /\ UNCHANGED <<c_max_iterations, c_max_execution_time>>
    /\ UNCHANGED <<c_scenario, catalog>>
    /\ UNCHANGED nonCallerVars

CallerNext ==
    \/ CallerAgain
    \/ CallerSetup
    \/ CallerLoopEnter
    \/ CallerLoopExit
    \/ CallerLlm
    \/ CallerParse
    \/ CallerBadInput
    \/ CallerRequest
    \/ CallerResolve
    \/ CallerParser
    \/ CallerParserRaises

----------------------------------------------------------------------------
(* ResponseParser (model/parser.py) *)

\* a limit that lets a 501-token output through
max_output_length_mut_501 == 500 + 1

\* the fields of ResponseParser, in tokens of the encoder
max_json_length_1 == 500
max_json_length_2 == 2000
max_output_length == 500

\* A text of the parser is known by a name and by the number of tokens the
\* encoder gives for it; a text cut to its first n tokens keeps the name and
\* records the cut.
Text(name, tokens) == [none |-> FALSE, name |-> name, tokens |-> tokens, cut |-> 0,
                       dots |-> FALSE]

\* Python's None where a text is expected
NoText == [none |-> TRUE, name |-> "", tokens |-> 0, cut |-> 0, dots |-> FALSE]

\* encoder.decode(encoder.encode(t)[:n])
Truncate(t, n) == [t EXCEPT !.tokens = n, !.cut = n]

\* t + '...'
WithDots(t) == [t EXCEPT !.dots = TRUE]

\* the response bodies a parser run may be given: JSON of several lengths, and
\* a body that is not JSON
ParserBodies ==
    { [valid |-> TRUE,  text |-> Text("body", 100)],
      [valid |-> TRUE,  text |-> Text("body", 501)],
      [valid |-> TRUE,  text |-> Text("body", 2001)],
      [valid |-> FALSE, text |-> Text("Not Found", 2)] }

\* what a completion of the parser's LLM may be
ParserCompletions == { Text("answer", 10), Text("answer", 501) }

\* PythonREPL.run(command): what the program printed, the empty string when
\* it printed nothing, None when it raised
ReplOutcomes == { NoText, Text("", 0), Text("printed", 10), Text("printed", 501) }

OutputEmptyMutNoneOnly(output) == output.none

\* output is None or len(output) == 0
OutputEmpty(output) == output.none \/ output.tokens = 0

\* the events of a parser run: the completions asked for and the programs run
LlmEvent(prompt, json) == [kind |-> "llm", prompt |-> prompt, json |-> json, out |-> NoText]

ExecEvent(tier, out) == [kind |-> "exec", prompt |-> tier, json |-> NoText, out |-> out]

ParserFresh ==
    /\ p_code = ""
    /\ p_output = NoText
    /\ p_encoded_json = 0
    /\ p_simplified_json_data = NoText
    /\ p_events = <<>>
    /\ p_result = NoText
    /\ p_error = ""

\* no parser is running
ParserIdle ==
    /\ p_pc = "idle"
    /\ p_inputs = [query |-> FALSE, json |-> [valid |-> TRUE, text |-> NoText]]
    /\ p_schema_prompt = FALSE
    /\ ParserFresh

\* a constructed parser and the inputs of a run: with or without the
\* schema prompt (lines 196-206), with or without a query
ParserInit ==
    /\ p_pc = "call"
    /\ p_schema_prompt \in BOOLEAN
    /\ \E q \in BOOLEAN, b \in ParserBodies : p_inputs = [query |-> q, json |-> b]
    /\ ParserFresh

\* lines 287-290: no schema prompt or no query, one direct completion
ParserSummarize ==
    /\ p_pc = "call"
    /\ ~ p_schema_prompt \/ ~ p_inputs.query
    /\ p_events' = Append(p_events, LlmEvent("llm_parsing_prompt", p_inputs.json.text))
    /\ \E out \in ParserCompletions :
          /\ p_output' = out
          /\ p_result' = out
    /\ p_pc' = "returned"
    /\ UNCHANGED <<p_inputs, p_schema_prompt, p_code, p_encoded_json,
                   p_simplified_json_data, p_error>>
    /\ UNCHANGED nonParserVars

\* lines 292-294: the program written from the schema
ParserSchemaCode ==
    /\ p_pc = "call"
    /\ p_schema_prompt /\ p_inputs.query
    /\ p_events' = Append(p_events, LlmEvent("code_parsing_schema_prompt", NoText))
    /\ p_code' = "schema"
    /\ p_pc' = "run1"
    /\ UNCHANGED <<p_inputs, p_schema_prompt, p_output, p_encoded_json,
                   p_simplified_json_data, p_result, p_error>>
    /\ UNCHANGED nonParserVars

\* line 295 where the body does not decode
ParserLoadFails ==
    /\ p_pc = "run1"
    /\ ~ p_inputs.json.valid
    /\ p_pc' = "raised"
    /\ p_error' = "JSONDecodeError"
    /\ UNCHANGED <<p_inputs, p_schema_prompt, p_code, p_output, p_encoded_json,
                   p_simplified_json_data, p_events, p_result>>
    /\ UNCHANGED nonParserVars

\* lines 295-298: the program is run on the decoded body
ParserRunSchemaCode ==
    /\ p_pc = "run1"
    /\ p_inputs.json.valid
    /\ \E res \in ReplOutcomes :
          /\ p_output' = res
          /\ p_events' = Append(p_events, ExecEvent("schema", res))
    /\ p_pc' = "if2"
    /\ UNCHANGED <<p_inputs, p_schema_prompt, p_code, p_encoded_json,
                   p_simplified_json_data, p_result, p_error>>
    /\ UNCHANGED nonParserVars

\* lines 300-309: the program written from the raw body
ParserResponseCode ==
    /\ p_pc = "if2"
    /\ OutputEmpty(p_output)
    /\ p_encoded_json' = p_inputs.json.text.tokens
    /\ p_simplified_json_data' =
          IF p_inputs.json.text.tokens > max_json_length_1
          THEN WithDots(Truncate(p_inputs.json.text, max_json_length_1))
          ELSE p_inputs.json.text
    /\ p_events' = Append(p_events,
                          LlmEvent("code_parsing_response_prompt",
                                   p_simplified_json_data'))
    /\ p_code' = "response"
    /\ p_pc' = "run2"
    /\ UNCHANGED <<p_inputs, p_schema_prompt, p_output, p_result, p_error>>
    /\ UNCHANGED nonParserVars

\* lines 311-313
ParserRunResponseCode ==
    /\ p_pc = "run2"
    /\ \E res \in ReplOutcomes :
          /\ p_output' = res
          /\ p_events' = Append(p_events, ExecEvent("response", res))
    /\ p_pc' = "if3"
    /\ UNCHANGED <<p_inputs, p_schema_prompt, p_code, p_encoded_json,
                   p_simplified_json_data, p_result, p_error>>
    /\ UNCHANGED nonParserVars

\* line 300, the test failing: the first program printed something
ParserSkipResponseCode ==
    /\ p_pc = "if2"
    /\ ~ OutputEmpty(p_output)
    /\ p_pc' = "if3"
    /\ UNCHANGED <<p_inputs, p_schema_prompt, p_code, p_output, p_encoded_json,
                   p_simplified_json_data, p_events, p_result, p_error>>
    /\ UNCHANGED nonParserVars

\* lines 315-319: the direct extraction
ParserDirect ==
    /\ p_pc = "if3"
    /\ OutputEmpty(p_output)
    /\ p_simplified_json_data' =
          IF p_encoded_json > max_json_length_2
          THEN WithDots(Truncate(p_inputs.json.text, max_json_length_2))
          ELSE p_simplified_json_data
    /\ p_events' = Append(p_events,
                          LlmEvent("llm_parsing_prompt", p_simplified_json_data'))
    /\ \E out \in ParserCompletions : p_output' = out
    /\ p_pc' = "post"
    /\ UNCHANGED <<p_inputs, p_schema_prompt, p_code, p_encoded_json, p_result,
                   p_error>>
    /\ UNCHANGED nonParserVars

\* line 315, the test failing
ParserSkipDirect ==
    /\ p_pc = "if3"
    /\ ~ OutputEmpty(p_output)
    /\ p_pc' = "post"
    /\ UNCHANGED <<p_inputs, p_schema_prompt, p_code, p_output, p_encoded_json,
                   p_simplified_json_data, p_events, p_result, p_error>>
    /\ UNCHANGED nonParserVars

\* lines 321-328: an output longer than max_output_length is cut and repaired
ParserPostprocess ==
    /\ p_pc = "post"
    /\ IF p_output.tokens > max_output_length
       THEN /\ p_events' = Append(p_events,
                                  LlmEvent("postprocess_prompt",
                                           Truncate(p_output, max_output_length)))
            /\ \E out \in ParserCompletions : p_output' = out
       ELSE UNCHANGED <<p_events, p_output>>
    /\ p_result' = p_output'
    /\ p_pc' = "returned"
    /\ UNCHANGED <<p_inputs, p_schema_prompt, p_code, p_encoded_json,
                   p_simplified_json_data, p_error>>
    /\ UNCHANGED nonParserVars

ParserNext ==
    \/ ParserSummarize
    \/ ParserSchemaCode
    \/ ParserLoadFails
    \/ ParserRunSchemaCode
    \/ ParserResponseCode
    \/ ParserRunResponseCode
    \/ ParserSkipResponseCode
    \/ ParserDirect
    \/ ParserSkipDirect
    \/ ParserPostprocess

----------------------------------------------------------------------------
(* RestGPT.__init__ (model/rest_gpt.py) *)

\* a scenario name is the sequence of its characters
Chars_tmdb == <<"t", "m", "d", "b">>

Chars_spotify == <<"s", "p", "o", "t", "i", "f", "y">>

Chars_unknown == <<"u", "n", "k", "n", "o", "w", "n">>

LowerLetters == <<"b", "d", "f", "i", "k", "m", "n", "o", "p", "s", "t", "u", "w", "y">>

UpperLetters == <<"B", "D", "F", "I", "K", "M", "N", "O", "P", "S", "T", "U", "W", "Y">>

\* c.upper() and c.lower() of one character
UpperChar(c) ==
    IF \E n \in 1..Len(LowerLetters) : LowerLetters[n] = c
    THEN UpperLetters[CHOOSE n \in 1..Len(LowerLetters) : LowerLetters[n] = c]
    ELSE c

LowerChar(c) ==
    IF \E n \in 1..Len(UpperLetters) : UpperLetters[n] = c
    THEN LowerLetters[CHOOSE n \in 1..Len(UpperLetters) : UpperLetters[n] = c]
    ELSE c

Upper(word) == [n \in 1..Len(word) |-> UpperChar(word[n])]

Lower(word) == [n \in 1..Len(word) |-> LowerChar(word[n])]

Capitalize(word) == [n \in 1..Len(word) |-> IF n = 1 THEN UpperChar(word[n]) ELSE word[n]]

\* every way of writing a lowercase word in upper and lower case
CaseVariants(word) ==
    { [n \in 1..Len(word) |-> IF up[n] THEN UpperChar(word[n]) ELSE word[n]] :
        up \in [1..Len(word) -> BOOLEAN] }

\* the scenario arguments RestGPT is constructed with
ScenarioArgs ==
    CaseVariants(Chars_tmdb) \cup CaseVariants(Chars_spotify) \cup {Chars_unknown}

TmdbAliasesMutUpperOnly == { Upper(Chars_tmdb) }

\* line 49: ['TMDB', 'Tmdb']
TmdbAliases == { Upper(Chars_tmdb), Capitalize(Chars_tmdb) }

SpotifyAliasesMutAnyCase == CaseVariants(Chars_spotify)

\* line 51: ['Spotify']
SpotifyAliases == { Capitalize(Chars_spotify) }

\* lines 49-52
NormaliseScenario(s) ==
    LET s1 == IF s \in TmdbAliases THEN Chars_tmdb ELSE s
    IN  IF s1 \in SpotifyAliases THEN Chars_spotify ELSE s1

\* line 53: ['tmdb', 'spotify']
SupportedScenarios == { Chars_tmdb, Chars_spotify }

\* no RestGPT is being constructed
CtorIdle ==
    /\ init_pc = "idle"
    /\ init_arg = Chars_tmdb
    /\ init_flags = [caller_doc_with_response |-> FALSE,
                     parser_with_example |-> FALSE, simple_parser |-> FALSE]
    /\ init_scenario = Chars_tmdb
    /\ constructed = <<>>
    /\ init_error = ""

\* RestGPT(llm, api_spec, scenario, requests_wrapper, ...) is entered
CtorInit ==
    /\ init_pc = "new"
    /\ init_arg \in ScenarioArgs
    /\ init_flags \in [caller_doc_with_response : BOOLEAN,
                       parser_with_example : BOOLEAN, simple_parser : BOOLEAN]
    /\ init_scenario = init_arg
    /\ constructed = <<>>
    /\ init_error = ""

\* lines 49-54: the scenario is normalised and checked
CtorValidate ==
    /\ init_pc = "new"
    /\ init_scenario' = NormaliseScenario(init_scenario)
    /\ IF init_scenario' \notin SupportedScenarios
       THEN init_pc' = "raised" /\ init_error' = "ValueError"
       ELSE init_pc' = "planner" /\ UNCHANGED init_error
    /\ UNCHANGED <<init_arg, init_flags, constructed>>
    /\ UNCHANGED nonCtorVars

\* line 56
CtorPlanner ==
    /\ init_pc = "planner"
    /\ constructed' = Append(constructed, <<"Planner", init_scenario>>)
    /\ init_pc' = "selector"
    /\ UNCHANGED <<init_arg, init_flags, init_scenario, init_error>>
    /\ UNCHANGED nonCtorVars

\* line 57
CtorSelector ==
    /\ init_pc = "selector"
    /\ constructed' = Append(constructed, <<"APISelector", init_scenario>>)
    /\ init_pc' = "super"
    /\ UNCHANGED <<init_arg, init_flags, init_scenario, init_error>>
    /\ UNCHANGED nonCtorVars

\* lines 59-62
CtorSuper ==
    /\ init_pc = "super"
    /\ constructed' = Append(constructed, <<"RestGPT", init_scenario>>)
    /\ init_pc' = "constructed"
    /\ UNCHANGED <<init_arg, init_flags, init_scenario, init_error>>
    /\ UNCHANGED nonCtorVars

CtorNext ==
    \/ CtorValidate
    \/ CtorPlanner
    \/ CtorSelector
    \/ CtorSuper

----------------------------------------------------------------------------
(* Calls of get_matched_endpoint (utils/utils.py) *)

\* the longest path, in segments, of the mentions explored
MaxSegs == 4

\* the path segments the mentions are written with
MentionSegs == {"a", "b", "m", "c", "7", "x", "{id}"}

\* "/seg/seg..." as a text
RECURSIVE PathOf(_)
PathOf(segs) ==
    IF Len(segs) = 0 THEN <<>> ELSE <<"/", Head(segs)>> \o PathOf(Tail(segs))

\* a plan text mentioning one endpoint, with or without a query string
PlanMentioning(m) ==
    <<"Use", " ", m.method, " ">> \o PathOf(m.segs)
    \o (IF m.query THEN <<"?", "page", "=", "1">> ELSE <<>>)
    \o <<" ", "to", " ", "find", " ", "it">>

\* no call of the matcher is under way
MatcherIdle ==
    /\ m_pc = "idle"
    /\ m_mention = [method |-> "GET", segs |-> <<"a">>, query |-> FALSE]
    /\ m_plan = <<>>
    /\ m_result = NoMatch

\* get_matched_endpoint(api_spec, plan) is entered with a plan that mentions
\* one endpoint
MatcherInit ==
    /\ m_pc = "call"
    /\ m_mention \in [method : {"GET", "POST"},
                      segs : UNION { [1..n -> MentionSegs] : n \in 1..MaxSegs },
                      query : BOOLEAN]
    /\ m_plan = PlanMentioning(m_mention)
    /\ m_result = NoMatch

\* lines 55-80
MatcherCall ==
    /\ m_pc = "call"
    /\ m_result' = get_matched_endpoint(SpecEndpoints, m_plan)
    /\ m_pc' = "done"
    /\ UNCHANGED <<m_mention, m_plan>>
    /\ UNCHANGED nonMatcherVars

MatcherNext == MatcherCall

----------------------------------------------------------------------------
(* Calls of fix_json_error (utils/utils.py) *)

\* how many times in a row the function is applied to its own output
MaxRounds == 2

\* JSON documents written one member or element a line: the lines without
\* their commas, and the lines a comma belongs after
FixerDocs ==
    << [lines |-> << <<"{">>, Member("a", <<"1">>), Member("b", <<"2">>), <<"}">> >>,
        commas |-> {2}],
       [lines |-> << <<"{">>,
                     Member("url", Str(<<"u">>)),
                     Member("params", <<"{">>),
                     Member("q", Str(<<"x">>)),
                     <<"}">>,
                     Member("data", <<"{">>),
                     Member("text", Str(<<"h">>)),
                     <<"}">>,
                     Member("description", Str(<<"d">>)),
                     <<"}">> >>,
        commas |-> {2, 5, 8}],
       [lines |-> << <<"[">>, <<"1">>, <<"2">>, <<"7">>, <<"]">> >>,
        commas |-> {2, 3}],
       [lines |-> << <<"{">>, Member("a", <<"[">>), <<"1">>, <<"2">>, <<"]">>,
                     Member("b", <<"2">>), <<"}">> >>,
        commas |-> {3, 5}],
       [lines |-> << <<"{">>, Member("a", <<"[", "]">>), Member("b", <<"2">>),
                     <<"}">> >>,
        commas |-> {2}],
       [lines |-> << Str(<<"abc">>) >>, commas |-> {}],
       [lines |-> << <<"7">> >>, commas |-> {}],
       [lines |-> << <<"null">> >>, commas |-> {}] >>

\* what the text is wrapped in
FixerWraps == {"none", "space", "backtick", "quote", "comma"}

\* the document on its lines, inner lines indented, the commas after the
\* dropped lines left out
Render(doc, dropped) ==
    JoinLines([i \in 1..Len(doc.lines) |->
        (IF 1 < i /\ i < Len(doc.lines) THEN <<" ">> ELSE <<>>)
        \o doc.lines[i]
        \o (IF i \in doc.commas \ dropped THEN <<",">> ELSE <<>>)])

Wrap(text, w) ==
    CASE w = "none" -> text
      [] w = "space" -> <<" ">> \o text \o <<"\n">>
      [] w = "backtick" -> <<"BACKTICK">> \o text \o <<"BACKTICK">>
      [] w = "quote" -> Str(text)
      [] w = "comma" -> text \o <<",">>

FixerText(in) == Wrap(Render(FixerDocs[in.doc], in.dropped), in.wrap)

NoFix == [raised |-> FALSE, data |-> <<>>]

\* no call of fix_json_error is under way
FixerIdle ==
    /\ f_pc = "idle"
    /\ f_input = [doc |-> 1, dropped |-> {}, wrap |-> "none"]
    /\ f_text = <<>>
    /\ f_round = 0
    /\ f_result = NoFix

\* fix_json_error(data) is entered
FixerInit ==
    /\ f_pc = "call"
    /\ \E d \in 1..Len(FixerDocs) :
          f_input \in [doc : {d}, dropped : SUBSET FixerDocs[d].commas,
                       wrap : FixerWraps]
    /\ f_text = FixerText(f_input)
    /\ f_round = 1
    /\ f_result = NoFix

\* lines 99-121, return_str = True
FixerCall ==
    /\ f_pc = "call"
    /\ f_result' = fix_json_error(f_text)
    /\ f_pc' = "done"
    /\ UNCHANGED <<f_input, f_text, f_round>>
    /\ UNCHANGED nonFixerVars

\* the function is applied to what it returned
FixerAgain ==
    /\ f_pc = "done"
    /\ ~ f_result.raised
    /\ f_round < MaxRounds
    /\ f_text' = f_result.data
    /\ f_round' = f_round + 1
    /\ f_result' = NoFix
    /\ f_pc' = "call"
    /\ UNCHANGED f_input
    /\ UNCHANGED nonFixerVars

FixerNext == FixerCall \/ FixerAgain

----------------------------------------------------------------------------
(* simplify_json (utils/utils.py) *)

RECURSIVE simplify_json_mut_shallow(_)

\* the same function without the recursion into the elements of a list
simplify_json_mut_shallow(raw_json) ==
    IF raw_json.k = "obj"
    THEN [k |-> "obj",
          v |-> [n \in 1..Len(raw_json.v) |->
                    [key |-> raw_json.v[n].key,
                     val |-> simplify_json_mut_shallow(raw_json.v[n].val)]]]
    ELSE IF raw_json.k = "arr"
    THEN IF Len(raw_json.v) <= 1 THEN raw_json
         ELSE [k |-> "arr", v |-> <<raw_json.v[1], raw_json.v[2]>>]
    ELSE raw_json

RECURSIVE simplify_json(_)

\* lines 83-96: the value returned
simplify_json(raw_json) ==
    IF raw_json.k = "obj"
    THEN [k |-> "obj",
          v |-> [n \in 1..Len(raw_json.v) |->
                    [key |-> raw_json.v[n].key,
                     val |-> simplify_json(raw_json.v[n].val)]]]
    ELSE IF raw_json.k = "arr"
    THEN IF Len(raw_json.v) = 0 THEN raw_json
         ELSE IF Len(raw_json.v) = 1
         THEN [k |-> "arr", v |-> <<simplify_json(raw_json.v[1])>>]
         ELSE [k |-> "arr",
               v |-> <<simplify_json(raw_json.v[1]), simplify_json(raw_json.v[2])>>]
    ELSE raw_json

RECURSIVE ArgAfter(_)

\* the argument after the call: lines 85-86 assign into the dicts the call
\* visits, lines 88-94 build new lists and leave the old ones as they were
ArgAfter(raw_json) ==
    IF raw_json.k = "obj" THEN simplify_json(raw_json)
    ELSE IF raw_json.k = "arr"
    THEN [k |-> "arr",
          v |-> [n \in 1..Len(raw_json.v) |->
                    IF n <= 2 THEN ArgAfter(raw_json.v[n]) ELSE raw_json.v[n]]]
    ELSE raw_json

\* the longest list, and the most keys, of the top level of an argument
MaxListLen == 3

Lit(tok) == [k |-> "lit", v |-> <<tok>>]

Arr(items) == [k |-> "arr", v |-> items]

Obj(members) == [k |-> "obj", v |-> members]

\* the values the arguments are built from
SimplifyItems ==
    << Lit("1"),
       PyStr(<<"a">>),
       Arr(<<>>),
       Arr(<<Lit("1"), Lit("2"), Lit("7")>>),
       Arr(<< Arr(<<Lit("1"), Lit("2"), Lit("7")>>) >>),
       Obj(<< [key |-> <<"k">>, val |-> Arr(<<Lit("1"), Lit("2"), Lit("7"), Lit("34")>>)] >>),
       Arr(<< Lit("1"),
              Obj(<< [key |-> <<"k">>, val |-> Arr(<<Lit("1"), Lit("2"), Lit("7")>>)] >>),
              Obj(<< [key |-> <<"k">>, val |-> Arr(<<Lit("1"), Lit("2"), Lit("7")>>)] >>) >>) >>

SimplifyKeys == << <<"k1">>, <<"k2">>, <<"k3">>, <<"k4">>, <<"k5">> >>

\* the argument a choice stands for: a list of the chosen items, or a dict
\* that holds them
SimplifyArg(choice) ==
    IF choice.dict
    THEN Obj([n \in 1..Len(choice.items) |->
                 [key |-> SimplifyKeys[n], val |-> SimplifyItems[choice.items[n]]]])
    ELSE Arr([n \in 1..Len(choice.items) |-> SimplifyItems[choice.items[n]]])

\* no call of simplify_json is under way
SimplifyIdle ==
    /\ s_pc = "idle"
    /\ s_choice = [dict |-> FALSE, items |-> <<>>]
    /\ s_raw_json = Arr(<<>>)
    /\ s_result = Arr(<<>>)

\* simplify_json(raw_json) is entered
SimplifyInit ==
    /\ s_pc = "call"
    /\ s_choice \in [dict : BOOLEAN,
                     items : UNION { [1..n -> 1..Len(SimplifyItems)] :
                                        n \in 0..MaxListLen }]
    /\ s_raw_json = SimplifyArg(s_choice)
    /\ s_result = Arr(<<>>)

\* lines 83-96
SimplifyCall ==
    /\ s_pc = "call"
    /\ s_result' = simplify_json(s_raw_json)
    /\ s_raw_json' = ArgAfter(s_raw_json)
    /\ s_pc' = "done"
    /\ UNCHANGED s_choice
    /\ UNCHANGED nonSimplifyVars

SimplifyNext == SimplifyCall

----------------------------------------------------------------------------
(* dereference_refs (utils/oas_utils.py) *)

\* the deepest nesting of _dereference_refs calls followed; Python raises
\* RecursionError when its own limit is passed, which only a cycle of
\* references reaches
MaxDepth == 12

Returned(val) == [err |-> "", val |-> val]

Raised(err) == [err |-> err, val |-> PyNone]

\* path.split("/")
RECURSIVE SplitSlash(_)
SplitSlash(path) ==
    LET s == IndexOf(path, "/")
    IN  IF s = 0 THEN <<path>>
        ELSE <<SubSeq(path, 1, s - 1)>> \o SplitSlash(SubSeq(path, s + 1, Len(path)))

\* out[component] for each component in turn
RECURSIVE Descend(_, _)
Descend(out, components) ==
    IF Len(components) = 0 THEN Returned(out)
    ELSE IF out.k # "obj" THEN Raised("TypeError")
    ELSE IF ~ \E n \in 1..Len(out.v) : out.v[n].key = Head(components)
    THEN Raised("KeyError")
    ELSE LET n == CHOOSE n \in 1..Len(out.v) : out.v[n].key = Head(components)
         IN  Descend(out.v[n].val, Tail(components))

\* lines 17-26
_retrieve_ref_path(path, full_spec) ==
    LET components == SplitSlash(path)
    IN  IF components[1] # <<"#">> THEN Raised("RuntimeError")
        ELSE Descend(full_spec, Tail(components))

RECURSIVE _dereference_refs(_, _, _, _)
RECURSIVE DerefItems(_, _, _, _, _)
RECURSIVE DerefMembers(_, _, _, _, _)

\* [_dereference_refs(el) for el in v] from element n on
DerefItems(items, n, acc, full_spec, depth) ==
    IF n > Len(items) THEN Returned(Arr(acc))
    ELSE LET r == _dereference_refs(items[n], FALSE, full_spec, depth + 1)
         IN  IF r.err # "" THEN r
             ELSE DerefItems(items, n + 1, Append(acc, r.val), full_spec, depth)

\* lines 35-47: the loop over obj.items() from member n on, obj_out so far
DerefMembers(members, n, obj_out, full_spec, depth) ==
    IF n > Len(members) THEN Returned(Obj(obj_out))
    ELSE LET k == members[n].key
             v == members[n].val
         IN  IF k = <<"$ref">>
             THEN LET ref == _retrieve_ref_path(v.v, full_spec)
                  IN  IF ref.err # "" THEN ref
                      ELSE _dereference_refs(ref.val, FALSE, full_spec, depth + 1)
             ELSE LET r == IF v.k = "arr"
                           THEN DerefItems(v.v, 1, <<>>, full_spec, depth)
                           ELSE IF v.k = "obj"
                           THEN _dereference_refs(v, FALSE, full_spec, depth + 1)
                           ELSE Returned(v)
                  IN  IF r.err # "" THEN r
                      ELSE DerefMembers(members, n + 1,
                                        Append(obj_out, [key |-> k, val |-> r.val]),
                                        full_spec, depth)

\* lines 28-51
_dereference_refs(obj, stop, full_spec, depth) ==
    IF depth > MaxDepth THEN Raised("RecursionError")
    ELSE IF stop THEN Returned(obj)
    ELSE IF obj.k = "obj" THEN DerefMembers(obj.v, 1, <<>>, full_spec, depth)
    ELSE IF obj.k = "arr" THEN DerefItems(obj.v, 1, <<>>, full_spec, depth)
    ELSE Returned(obj)

\* line 53
dereference_refs(spec_obj, full_spec) ==
    _dereference_refs(spec_obj, FALSE, full_spec, 1)

\* the most schema slots of a document
MaxSlots == 3

KV(key, val) == [key |-> <<key>>, val |-> val]

RefTo(name) ==
    KV("$ref", PyStr(<<"#", "/", "components", "/", "schemas", "/", name>>))

PlainSchema == Obj(<< KV("type", PyStr(<<"string">>)) >>)

\* what a slot of a document holds: a schema without a reference, or a
\* reference object
SlotKinds == {"plain", "Foo", "Bar", "Foo+after", "before+Foo", "Zed", "file"}

\* the component a slot refers to, "" where it holds no reference that resolves
SlotTarget(kind) ==
    CASE kind \in {"Foo", "Foo+after", "before+Foo"} -> "Foo"
      [] kind = "Bar" -> "Bar"
      [] OTHER -> ""

Slot(kind) ==
    CASE kind = "plain" -> PlainSchema
      [] kind = "Foo" -> Obj(<< RefTo("Foo") >>)
      [] kind = "Bar" -> Obj(<< RefTo("Bar") >>)
      [] kind = "Foo+after" -> Obj(<< RefTo("Foo"), KV("nullable", Lit("true")) >>)
      [] kind = "before+Foo" -> Obj(<< KV("nullable", Lit("true")), RefTo("Foo") >>)
      [] kind = "Zed" -> Obj(<< RefTo("Zed") >>)
      [] kind = "file" -> Obj(<< KV("$ref", PyStr(<<"defs.yaml", "#", "/", "Foo">>)) >>)

\* the document with the given schemas in its slots: the first under a key,
\* the others in a list
DocOf(schemas) ==
    Obj(<< KV("description", PyStr(<<"d">>)),
           KV("schema", schemas[1]),
           KV("oneOf", Arr(Tail(schemas))) >>)

\* what components/schemas/Foo of the full spec is
FooKinds == {"plain", "list", "refBar", "refFoo"}

FooBody(kind) ==
    CASE kind = "plain" -> Obj(<< KV("type", PyStr(<<"object">>)) >>)
      [] kind = "list" -> Obj(<< KV("enum", Arr(<<Lit("1"), Lit("2")>>)) >>)
      [] kind = "refBar" -> Obj(<< KV("properties", Obj(<< KV("p", Obj(<< RefTo("Bar") >>)) >>)) >>)
      [] kind = "refFoo" -> Obj(<< KV("properties", Obj(<< KV("child", Obj(<< RefTo("Foo") >>)) >>)) >>)

BarBody == Obj(<< KV("type", PyStr(<<"integer">>)) >>)

FullSpec(foo) ==
    Obj(<< KV("components",
              Obj(<< KV("schemas",
                        Obj(<< KV("Foo", FooBody(foo)), KV("Bar", BarBody) >>)) >>)) >>)

NoDeref == Returned(PyNone)

\* no call of dereference_refs is under way
DerefIdle ==
    /\ d_pc = "idle"
    /\ d_slots = <<"plain">>
    /\ d_foo = "plain"
    /\ d_result = NoDeref

\* dereference_refs(spec_obj, full_spec) is entered
DerefInit ==
    /\ d_pc = "call"
    /\ d_slots \in UNION { [1..n -> SlotKinds] : n \in 1..MaxSlots }
    /\ d_foo \in FooKinds
    /\ d_result = NoDeref

\* spec_obj, the document that is dereferenced
DerefSpecObj == DocOf([n \in 1..Len(d_slots) |-> Slot(d_slots[n])])

\* lines 7-53
DerefCall ==
    /\ d_pc = "call"
    /\ d_result' = dereference_refs(DerefSpecObj, FullSpec(d_foo))
    /\ d_pc' = "done"
    /\ UNCHANGED <<d_slots, d_foo>>
    /\ UNCHANGED nonDerefVars

DerefNext == DerefCall

----------------------------------------------------------------------------
(* merge_allof_properties (utils/oas_utils.py) *)

\* the same update with the value already there kept
RECURSIVE UpdateMutFirstWins(_, _)
UpdateMutFirstWins(members, other) ==
    IF Len(other) = 0 THEN members
    ELSE LET m == Head(other)
             now == IF \E n \in 1..Len(members) : members[n].key = m.key
                    THEN members
                    ELSE Append(members, m)
         IN  UpdateMutFirstWins(now, Tail(other))

\* dict.update(other): a key already there keeps its place and takes the new
\* value, a new key goes to the end
RECURSIVE Update(_, _)
Update(members, other) ==
    IF Len(other) = 0 THEN members
    ELSE LET m == Head(other)
             now == IF \E n \in 1..Len(members) : members[n].key = m.key
                    THEN [n \in 1..Len(members) |->
                             IF members[n].key = m.key THEN m ELSE members[n]]
                    ELSE Append(members, m)
         IN  Update(now, Tail(other))

RECURSIVE merge(_)
RECURSIVE MergeFrom(_, _, _, _)

\* lines 58-69: the loop over to_merge from fragment n on, with
\* merged['properties'] and merged['required'] so far
MergeFrom(to_merge, n, properties, required) ==
    IF n > Len(to_merge)
    THEN Obj(<< KV("properties", Obj(properties)),
                KV("required", Arr(required)),
                KV("type", PyStr(<<"object">>)) >>)
    ELSE LET partial_schema == to_merge[n]
         IN  IF HasKey(partial_schema, "allOf")
             THEN LET tmp == merge(GetOr(partial_schema, "allOf", PyNone).v)
                  IN  MergeFrom(to_merge, n + 1,
                                Update(properties, GetOr(tmp, "properties", PyNone).v),
                                IF HasKey(tmp, "required")
                                THEN required \o GetOr(tmp, "required", PyNone).v
                                ELSE required)
             ELSE MergeFrom(to_merge, n + 1,
                            IF HasKey(partial_schema, "properties")
                            THEN Update(properties,
                                        GetOr(partial_schema, "properties", PyNone).v)
                            ELSE properties,
                            IF HasKey(partial_schema, "required")
                            THEN required \o GetOr(partial_schema, "required", PyNone).v
                            ELSE required)

\* lines 57-69
merge(to_merge) == MergeFrom(to_merge, 1, <<>>, <<>>)

RECURSIVE _merge_allof(_)
RECURSIVE MergeAllofMembers(_, _, _)

\* lines 74-82: the loop over obj.items() from member n on, obj_out so far
MergeAllofMembers(members, n, obj_out) ==
    IF n > Len(members) THEN Obj(obj_out)
    ELSE LET k == members[n].key
             v == members[n].val
         IN  IF k = <<"allOf">> THEN _merge_allof(merge(v.v))
             ELSE LET out == IF v.k = "arr"
                             THEN Arr([i \in 1..Len(v.v) |-> _merge_allof(v.v[i])])
                             ELSE IF v.k = "obj" THEN _merge_allof(v)
                             ELSE v
                  IN  MergeAllofMembers(members, n + 1,
                                        Append(obj_out, [key |-> k, val |-> out]))

\* lines 71-86
_merge_allof(obj) ==
    IF obj.k = "obj" THEN MergeAllofMembers(obj.v, 1, <<>>)
    ELSE IF obj.k = "arr" THEN Arr([i \in 1..Len(obj.v) |-> _merge_allof(obj.v[i])])
    ELSE obj

\* line 88
merge_allof_properties(obj) == _merge_allof(obj)

\* the most fragments of an allOf list
MaxFragments == 3

Names(toks) == Arr([n \in 1..Len(toks) |-> PyStr(<<toks[n]>>)])

\* the fragments an allOf list is built from
FragmentKinds == {"a", "b", "a7", "req", "nested", "deep", "empty"}

\* the schema under the property d of the fragment "deep"
DeepSchema ==
    Obj(<< KV("allOf",
              Arr(<< Obj(<< KV("properties", Obj(<< KV("a", Lit("1")) >>)),
                            KV("required", Names(<<"a">>)) >>),
                     Obj(<< KV("properties", Obj(<< KV("b", Lit("2")) >>)) >>) >>)) >>)

Fragment(kind) ==
    CASE kind = "a" -> Obj(<< KV("properties", Obj(<< KV("a", Lit("1")) >>)),
                              KV("required", Names(<<"a">>)) >>)
      [] kind = "b" -> Obj(<< KV("properties", Obj(<< KV("b", Lit("2")) >>)),
                              KV("required", Names(<<"b">>)) >>)
      [] kind = "a7" -> Obj(<< KV("properties", Obj(<< KV("a", Lit("7")) >>)) >>)
      [] kind = "req" -> Obj(<< KV("required", Names(<<"b", "a">>)) >>)
      [] kind = "nested" ->
            Obj(<< KV("allOf",
                      Arr(<< Obj(<< KV("properties", Obj(<< KV("c", Lit("2")) >>)),
                                    KV("required", Names(<<"c">>)) >>),
                             Obj(<< KV("properties", Obj(<< KV("a", Lit("34")) >>)) >>) >>)) >>)
      [] kind = "deep" -> Obj(<< KV("properties", Obj(<< KV("d", DeepSchema) >>)) >>)
      [] kind = "empty" -> Obj(<<>>)

\* where the object that holds the allOf list is: the argument itself, the
\* value of a key of the argument, or an element of a list of the argument
HolderPlaces == {"top", "key", "list"}

Holder(kinds) ==
    Obj(<< KV("description", PyStr(<<"d">>)),
           KV("allOf", Arr([n \in 1..Len(kinds) |-> Fragment(kinds[n])])) >>)

MergeArg(kinds, place) ==
    CASE place = "top" -> Holder(kinds)
      [] place = "key" -> Obj(<< KV("title", PyStr(<<"t">>)),
                                 KV("schema", Holder(kinds)) >>)
      [] place = "list" -> Obj(<< KV("anyOf", Arr(<< PlainSchema, Holder(kinds) >>)) >>)

\* no call of merge_allof_properties is under way
MergeIdle ==
    /\ g_pc = "idle"
    /\ g_kinds = <<"empty">>
    /\ g_place = "top"
    /\ g_result = PyNone

\* merge_allof_properties(obj) is entered
MergeInit ==
    /\ g_pc = "call"
    /\ g_kinds \in UNION { [1..n -> FragmentKinds] : n \in 1..MaxFragments }
    /\ g_place \in HolderPlaces
    /\ g_result = PyNone

\* lines 56-88
MergeCall ==
    /\ g_pc = "call"
    /\ g_result' = merge_allof_properties(MergeArg(g_kinds, g_place))
    /\ g_pc' = "done"
    /\ UNCHANGED <<g_kinds, g_place>>
    /\ UNCHANGED nonMergeVars

MergeNext == MergeCall

----------------------------------------------------------------------------
(* reduce_openapi_spec (utils/oas_utils.py) *)

\* bool(value) of a Python value
Truthy(val) ==
    CASE val.k = "none" -> FALSE
      [] val.k = "lit" -> val.v \notin { <<"false">>, <<"0">> }
      [] OTHER -> Len(val.v) > 0

\* operation_name.upper() of the operation names of line 112
MethodUpper(operation_name) ==
    CASE operation_name = <<"get">> -> "GET"
      [] operation_name = <<"post">> -> "POST"
      [] operation_name = <<"patch">> -> "PATCH"
      [] operation_name = <<"delete">> -> "DELETE"
      [] operation_name = <<"put">> -> "PUT"

OperationNames == { <<"get">>, <<"post">>, <<"patch">>, <<"delete">>, <<"put">> }

\* the key 200 written as a number in the document, where "200" is the text
IntKey200 == <<"int", "200">>

\* lines 109-114: the endpoints of the routes from route n on
RECURSIVE EndpointsFrom(_, _)
EndpointsFrom(routes, n) ==
    IF n > Len(routes) THEN <<>>
    ELSE LET route == routes[n].key
             operation == routes[n].val.v
             included == SelectSeq(operation, LAMBDA m : m.key \in OperationNames)
         IN  [i \in 1..Len(included) |->
                 [name |-> <<MethodUpper(included[i].key), " ">> \o route,
                  description |-> GetOr(included[i].val, "description", PyNone),
                  docs |-> included[i].val]]
             \o EndpointsFrom(routes, n + 1)

\* the same lines without the test for the number 200
SuccessEntryMutTextKeyOnly(responses) ==
    IF HasKey(responses, "200")
    THEN << [key |-> <<"responses">>, val |-> GetOr(responses, "200", PyNone)] >>
    ELSE <<>>

\* lines 163-166: out["responses"], where it is set
SuccessEntry(responses) ==
    IF HasKey(responses, "200")
    THEN << [key |-> <<"responses">>, val |-> GetOr(responses, "200", PyNone)] >>
    ELSE IF \E n \in 1..Len(responses.v) : responses.v[n].key = IntKey200
    THEN << [key |-> <<"responses">>,
             val |-> (CHOOSE m \in {responses.v[n] : n \in 1..Len(responses.v)} :
                         m.key = IntKey200).val] >>
    ELSE <<>>

\* lines 145-167: raises KeyError where docs has no "responses"
reduce_endpoint_docs(docs, only_required) ==
    IF ~ HasKey(docs, "responses") THEN Raised("KeyError")
    ELSE LET description == GetOr(docs, "description", PyNone)
             parameters == GetOr(docs, "parameters", PyNone)
             requestBody == GetOr(docs, "requestBody", PyNone)
             responses == GetOr(docs, "responses", PyNone)
             out1 == IF Truthy(description)
                     THEN << [key |-> <<"description">>, val |-> description] >>
                     ELSE <<>>
             out2 == IF Truthy(parameters)
                     THEN << [key |-> <<"parameters">>,
                              val |-> IF only_required
                                      THEN Arr(SelectSeq(parameters.v,
                                             LAMBDA p : Truthy(GetOr(p, "required", PyNone))))
                                      ELSE parameters] >>
                     ELSE <<>>
             out3 == IF Truthy(requestBody)
                     THEN << [key |-> <<"requestBody">>, val |-> requestBody] >>
                     ELSE <<>>
             out4 == SuccessEntry(responses)
         IN  Returned(Obj(out1 \o out2 \o out3 \o out4))

\* a list comprehension over the endpoints whose element may raise: the
\* first exception in order escapes
MapDocs(endpoints, results) ==
    IF \E n \in 1..Len(endpoints) : results[n].err # ""
    THEN LET n == CHOOSE i \in 1..Len(endpoints) :
                     /\ results[i].err # ""
                     /\ \A j \in 1..(i - 1) : results[j].err = ""
         IN  [err |-> results[n].err, endpoints |-> <<>>]
    ELSE [err |-> "",
          endpoints |-> [n \in 1..Len(endpoints) |->
                            [endpoints[n] EXCEPT !.docs = results[n].val]]]

NoCatalog(err) == [err |-> err, servers |-> PyNone, description |-> PyNone, endpoints |-> <<>>]

\* lines 100-177
reduce_openapi_spec(spec, dereference, only_required, merge_allof) ==
    LET endpoints1 == EndpointsFrom(GetOr(spec, "paths", PyNone).v, 1)
        step2 == IF dereference
                 THEN MapDocs(endpoints1,
                              [n \in 1..Len(endpoints1) |->
                                  dereference_refs(endpoints1[n].docs, spec)])
                 ELSE [err |-> "", endpoints |-> endpoints1]
        step3 == IF step2.err # "" \/ ~ merge_allof THEN step2
                 ELSE MapDocs(step2.endpoints,
                              [n \in 1..Len(step2.endpoints) |->
                                  Returned(merge_allof_properties(step2.endpoints[n].docs))])
        step4 == IF step3.err # "" THEN step3
                 ELSE MapDocs(step3.endpoints,
                              [n \in 1..Len(step3.endpoints) |->
                                  reduce_endpoint_docs(step3.endpoints[n].docs, only_required)])
    IN  IF step4.err # "" THEN NoCatalog(step4.err)
        ELSE [err |-> "",
              servers |-> GetOr(spec, "servers", PyNone),
              description |-> GetOr(GetOr(spec, "info", PyNone), "description", PyStr(<<>>)),
              endpoints |-> step4.endpoints]

\* the most routes of a spec
MaxRoutes == 2

RouteNames == << <<"/", "a">>, <<"/", "b">>, <<"/", "c">>, <<"/", "d">> >>

\* the key a route holds its one entry under: an operation, or the
\* parameters all its operations share
RouteKeys == {"get", "post", "parameters"}

\* what the responses of the entry hold
DocsKinds == {"200", "int200", "201", "ref200", "badref", "absent"}

Success(schema) ==
    Obj(<< KV("description", PyStr(<<"ok">>)),
           KV("content", Obj(<< KV("application/json", Obj(<< KV("schema", schema) >>)) >>)) >>)

Responses(kind) ==
    CASE kind = "200" -> Obj(<< KV("200", Success(PlainSchema)), KV("404", PlainSchema) >>)
      [] kind = "int200" -> Obj(<< [key |-> IntKey200, val |-> Success(PlainSchema)] >>)
      [] kind = "201" -> Obj(<< KV("201", Success(PlainSchema)), KV("default", PlainSchema) >>)
      [] kind = "ref200" -> Obj(<< KV("200", Success(Obj(<< RefTo("Foo") >>))) >>)
      [] kind = "badref" -> Obj(<< KV("200", Success(Obj(<< RefTo("Zed") >>))) >>)

OperationDocs(kind) ==
    Obj(<< KV("description", PyStr(<<"d">>)),
           KV("parameters",
              Arr(<< Obj(<< KV("name", PyStr(<<"p">>)), KV("required", Lit("true")) >>),
                     Obj(<< KV("name", PyStr(<<"q">>)) >>) >>)) >>
        \o (IF kind = "absent" THEN <<>> ELSE << KV("responses", Responses(kind)) >>))

RawSpec(routes) ==
    Obj(<< KV("servers", Arr(<< Obj(<< KV("url", PyStr(<<"https://api">>)) >>) >>)),
           KV("info", Obj(<< KV("title", PyStr(<<"t">>)) >>)),
           KV("paths",
              Obj([n \in 1..Len(routes) |->
                      [key |-> RouteNames[n],
                       val |-> Obj(<< KV(routes[n].key, OperationDocs(routes[n].kind)) >>)]])),
           KV("components",
              Obj(<< KV("schemas", Obj(<< KV("Foo", FooBody("plain")) >>)) >>)) >>)

\* no call of reduce_openapi_spec is under way
ReduceIdle ==
    /\ r_pc = "idle"
    /\ r_routes = << [key |-> "get", kind |-> "200"] >>
    /\ r_flags = [dereference |-> TRUE, only_required |-> TRUE, merge_allof |-> FALSE]
    /\ r_result = NoCatalog("")

\* reduce_openapi_spec(spec, ...) is entered
ReduceInit ==
    /\ r_pc = "call"
    /\ r_routes \in UNION { [1..n -> [key : RouteKeys, kind : DocsKinds]] :
                              n \in 1..MaxRoutes }
    /\ r_flags \in [dereference : BOOLEAN, only_required : BOOLEAN,
                    merge_allof : BOOLEAN]
    /\ r_result = NoCatalog("")

\* lines 100-177
ReduceCall ==
    /\ r_pc = "call"
    /\ r_result' = reduce_openapi_spec(RawSpec(r_routes), r_flags.dereference,
                                       r_flags.only_required, r_flags.merge_allof)
    /\ r_pc' = "done"
    /\ UNCHANGED <<r_routes, r_flags>>
    /\ UNCHANGED nonReduceVars

ReduceNext == ReduceCall

----------------------------------------------------------------------------
(* The batch runner over the movie dataset (run_tmdb.py) *)

\* the most queries of a dataset
MaxQueries == 3

\* how run(query, ...) ends: it returns, raises an Exception, or is left by
\* an exception that is no Exception (KeyboardInterrupt, SystemExit)
RunOutcomes == {"returns", "Exception", "BaseException"}

\* MyRotatingFileHandler.doRollover (utils/utils.py 33-46): the stream is
\* closed, the log is moved to tmdb_<cnt>.log over any file of that name,
\* cnt goes up and the stream is opened again
doRollover(handler) ==
    [cnt |-> handler.cnt + 1,
     rotated |-> handler.rotated \cup {handler.cnt},
     stream |-> "open"]

\* no batch is running
BatchIdle ==
    /\ b_pc = "idle"
    /\ b_queries = <<>>
    /\ idx = 0
    /\ b_raised = "none"
    /\ file_handler = [cnt |-> 1, rotated |-> {}, stream |-> "open"]
    /\ b_events = <<>>

\* main() has read the dataset (lines 29-57)
BatchInit ==
    /\ b_pc = "for"
    /\ b_queries \in UNION { [1..n -> RunOutcomes] : n \in 0..MaxQueries }
    /\ idx = 0
    /\ b_raised = "none"
    /\ file_handler = [cnt |-> 1, rotated |-> {}, stream |-> "open"]
    /\ b_events = <<>>

\* line 59: the next query of the dataset
BatchFor ==
    /\ b_pc = "for"
    /\ idx < Len(b_queries)
    /\ idx' = idx + 1
    /\ b_pc' = "try"
    /\ UNCHANGED <<b_queries, b_raised, file_handler, b_events>>
    /\ UNCHANGED nonBatchVars

\* line 59: the dataset is exhausted
BatchEnd ==
    /\ b_pc = "for"
    /\ idx >= Len(b_queries)
    /\ b_pc' = "done"
    /\ UNCHANGED <<b_queries, idx, b_raised, file_handler, b_events>>
    /\ UNCHANGED nonBatchVars

\* lines 60-62: the header is printed and the query is run
BatchTry ==
    /\ b_pc = "try"
    /\ b_events' = Append(b_events, <<"run", idx>>)
    /\ b_raised' = IF b_queries[idx] = "returns" THEN "none" ELSE b_queries[idx]
    /\ b_pc' = IF b_queries[idx] = "Exception" THEN "except" ELSE "finally"
    /\ UNCHANGED <<b_queries, idx, file_handler>>
    /\ UNCHANGED nonBatchVars

\* lines 63-64: the error is printed and dropped
BatchExcept ==
    /\ b_pc = "except"
    /\ b_events' = Append(b_events, <<"print", idx>>)
    /\ b_raised' = "none"
    /\ b_pc' = "finally"
    /\ UNCHANGED <<b_queries, idx, file_handler>>
    /\ UNCHANGED nonBatchVars

\* the same lines with the rollover at the end of the try block
BatchFinallyMutInTry ==
    /\ b_pc = "finally"
    /\ file_handler' = IF b_queries[idx] = "returns" THEN doRollover(file_handler)
                       ELSE file_handler
    /\ b_events' = IF b_queries[idx] = "returns"
                   THEN Append(b_events, <<"rollover", idx>>)
                   ELSE b_events
    /\ b_pc' = IF b_raised = "none" THEN "for" ELSE "raised"
    /\ UNCHANGED <<b_queries, idx, b_raised>>
    /\ UNCHANGED nonBatchVars

\* lines 65-66: the log is rotated, and an exception that was not caught
\* leaves main()
BatchFinally ==
    /\ b_pc = "finally"
    /\ file_handler' = doRollover(file_handler)
    /\ b_events' = Append(b_events, <<"rollover", idx>>)
    /\ b_pc' = IF b_raised = "none" THEN "for" ELSE "raised"
    /\ UNCHANGED <<b_queries, idx, b_raised>>
    /\ UNCHANGED nonBatchVars

BatchNext ==
    \/ BatchFor
    \/ BatchEnd
    \/ BatchTry
    \/ BatchExcept
    \/ BatchFinally

----------------------------------------------------------------------------
(* Secret resolution of the web front end (streamlit_app.py) *)

\* how many of the configuration keys of lines 33-37 are followed
MaxKeys == 2

\* what a source holds under a key: nothing, the empty text, or a value
Held == {"absent", "empty", "value"}

\* the text a source holds under a key
HeldText(source, held) ==
    IF held = "empty" THEN <<>> ELSE <<source>>

\* lines 24-30: get_secret_or_config(key), the secret store and the YAML
\* file holding what they hold under the key
get_secret_or_config(in_secrets, in_config) ==
    IF in_secrets # "absent" THEN Returned(PyStr(HeldText("secret", in_secrets)))
    ELSE IF in_config # "absent" /\ HeldText("yaml", in_config) # <<>>
    THEN Returned(PyStr(HeldText("yaml", in_config)))
    ELSE Raised("ValueError")

\* the front end is not starting
SecretsIdle ==
    /\ k_pc = "idle"
    /\ secrets = <<>>
    /\ config = <<>>
    /\ environ = <<>>
    /\ k_error = ""

\* main() has read config.yaml (line 21)
SecretsInit ==
    /\ k_pc = "environ"
    /\ \E n \in 1..MaxKeys :
          /\ secrets \in [1..n -> Held]
          /\ config \in [1..n -> Held]
    /\ environ = <<>>
    /\ k_error = ""

\* lines 33-37: the next environment variable is set from the key
SecretsSet ==
    /\ k_pc = "environ"
    /\ Len(environ) < Len(secrets)
    /\ LET n == Len(environ) + 1
           got == get_secret_or_config(secrets[n], config[n])
       IN  /\ got.err = ""
           /\ environ' = Append(environ, got.val.v)
    /\ UNCHANGED <<k_pc, secrets, config, k_error>>
    /\ UNCHANGED nonSecretsVars

\* lines 33-37: the lookup raises and main() is left
SecretsRaise ==
    /\ k_pc = "environ"
    /\ Len(environ) < Len(secrets)
    /\ LET n == Len(environ) + 1
           got == get_secret_or_config(secrets[n], config[n])
       IN  /\ got.err # ""
           /\ k_error' = got.err
    /\ k_pc' = "raised"
    /\ UNCHANGED <<secrets, config, environ>>
    /\ UNCHANGED nonSecretsVars

\* line 39: every variable is set
SecretsConfigured ==
    /\ k_pc = "environ"
    /\ Len(environ) = Len(secrets)
    /\ k_pc' = "configured"
    /\ UNCHANGED <<secrets, config, environ, k_error>>
    /\ UNCHANGED nonSecretsVars

SecretsNext ==
    \/ SecretsSet
    \/ SecretsRaise
    \/ SecretsConfigured


----------------------------------------------------------------------------
(* Calls of get_matched_endpoint on plans with several mentions *)

\* the most endpoints a plan mentions
MaxMentions == 2

\* catalogs in which a path fits several names: a literal name and two
\* templated ones
Catalogs ==
    << SpecEndpoints,
       << <<"GET", " ", "/", "m", "/", "{id}">>,
          <<"GET", " ", "/", "m", "/", "x">>,
          <<"GET", " ", "/", "{movie_id}", "/", "7">>,
          <<"POST", " ", "/", "b">> >> >>

\* the endpoints a plan may mention; the last one is a method with no path
Mentioned ==
    { [method |-> "GET",  segs |-> <<"m", "x">>],
      [method |-> "GET",  segs |-> <<"m", "7">>],
      [method |-> "GET",  segs |-> <<"a", "7">>],
      [method |-> "POST", segs |-> <<"b">>],
      [method |-> "GET",  segs |-> <<"zz">>],
      [method |-> "PUT",  segs |-> <<>>] }

\* a plan text that mentions the endpoints one after the other
RECURSIVE PlanListing(_)
PlanListing(mentions) ==
    IF Len(mentions) = 0 THEN <<"Nothing", " ", "to", " ", "call">>
    ELSE <<Head(mentions).method, " ">> \o PathOf(Head(mentions).segs)
         \o (IF Len(mentions) = 1 THEN <<" ", "to", " ", "find", " ", "it">>
             ELSE <<" ", "then", " ">> \o PlanListing(Tail(mentions)))

\* no call of the matcher is under way
MatchListIdle ==
    /\ l_pc = "idle"
    /\ l_catalog = 1
    /\ l_mentions = <<>>
    /\ l_plan = <<>>
    /\ l_result = NoMatch

\* get_matched_endpoint(api_spec, plan) is entered
MatchListInit ==
    /\ l_pc = "call"
    /\ l_catalog \in 1..Len(Catalogs)
    /\ l_mentions \in UNION { [1..n -> Mentioned] : n \in 0..MaxMentions }
    /\ l_plan = PlanListing(l_mentions)
    /\ l_result = NoMatch

\* lines 55-80
MatchListCall ==
    /\ l_pc = "call"
    /\ l_result' = get_matched_endpoint(Catalogs[l_catalog], l_plan)
    /\ l_pc' = "done"
    /\ UNCHANGED <<l_catalog, l_mentions, l_plan>>
    /\ UNCHANGED nonMatchListVars

MatchListNext == MatchListCall


----------------------------------------------------------------------------
(* MyRotatingFileHandler (utils/utils.py) and the log files of a batch *)

\* the most records one query logs
MaxLines == 2

\* a file of the log directory: file 0 is baseFilename (tmdb.log), file n is
\* tmdb_<n>.log
NoFile == [exists |-> FALSE, lines |-> <<>>]

FileOf(lines) == [exists |-> TRUE, lines |-> lines]

\* a record left in the directory by an earlier process
StaleLine == [query |-> 0, n |-> 1]

\* self._open() with mode 'a': the file is created where it is missing
Opened(files) ==
    IF files[0].exists THEN files ELSE [files EXCEPT ![0] = FileOf(<<>>)]

\* the rollover with the counter raised before the name is made
MyRotatingFileHandler_doRollover_mut_counts_first(handler, files) ==
    LET dfn     == handler.cnt + 1
        removed == [files EXCEPT ![dfn] = NoFile]
        rotated == IF removed[0].exists
                   THEN [removed EXCEPT ![dfn] = removed[0], ![0] = NoFile]
                   ELSE removed
    IN  [handler |-> [cnt |-> handler.cnt + 1, stream |-> "open"],
         files   |-> Opened(rotated)]

\* lines 35-47, delay being False: the stream is closed, any file named
\* <base>_<cnt>.<ext> is removed, the log is renamed to that name, cnt goes
\* up and the log is opened again
MyRotatingFileHandler_doRollover(handler, files) ==
    LET dfn     == handler.cnt
        removed == [files EXCEPT ![dfn] = NoFile]
        rotated == IF removed[0].exists
                   THEN [removed EXCEPT ![dfn] = removed[0], ![0] = NoFile]
                   ELSE removed
    IN  [handler |-> [cnt |-> handler.cnt + 1, stream |-> "open"],
         files   |-> Opened(rotated)]

\* lines 49-52: the stream is opened where there is none; the answer is 0
shouldRollover(handler, files) ==
    [answer  |-> 0,
     handler |-> [handler EXCEPT !.stream = "open"],
     files   |-> IF handler.stream = "open" THEN files ELSE Opened(files)]

\* BaseRotatingHandler.emit(record): a rollover where shouldRollover says
\* so, then the record is written to the stream
emit(handler, files, record) ==
    LET asked  == shouldRollover(handler, files)
        rolled == IF asked.answer # 0
                  THEN MyRotatingFileHandler_doRollover(asked.handler, asked.files)
                  ELSE [handler |-> asked.handler, files |-> asked.files]
    IN  [handler |-> rolled.handler,
         files   |-> [rolled.files EXCEPT ![0].lines = Append(@, record)]]

\* no batch is logging
RotateIdle ==
    /\ h_pc = "idle"
    /\ h_total = 0
    /\ h_query = 0
    /\ h_handler = [cnt |-> 1, stream |-> "open"]
    /\ h_files = [f \in 0..(MaxQueries + 1) |-> NoFile]
    /\ h_logged = <<>>

\* run_tmdb.py, line 37: the handler is made (cnt = 1, the log opened for
\* appending) in a directory that may hold the files of an earlier process
RotateInit ==
    /\ h_pc = "run"
    /\ h_total \in 0..MaxQueries
    /\ h_query = 1
    /\ h_handler = [cnt |-> 1, stream |-> "open"]
    /\ h_files \in [0..(MaxQueries + 1) -> {NoFile, FileOf(<<>>), FileOf(<<StaleLine>>)}]
    /\ h_files[0].exists
    /\ \A f \in 1..(MaxQueries + 1) : h_files[f] # FileOf(<<>>)
    /\ h_files[MaxQueries + 1] = NoFile
    /\ h_logged = <<>>

\* run_tmdb.py, lines 21-25: the query being run logs a record
RotateEmit ==
    /\ h_pc = "run"
    /\ h_query <= h_total
    /\ LET n == Cardinality({ k \in 1..Len(h_logged) : h_logged[k].query = h_query })
           record == [query |-> h_query, n |-> n + 1]
           out == emit(h_handler, h_files, record)
       IN  /\ n < MaxLines
           /\ h_handler' = out.handler
           /\ h_files' = out.files
           /\ h_logged' = Append(h_logged, record)
    /\ UNCHANGED <<h_pc, h_total, h_query>>
    /\ UNCHANGED nonRotateVars

\* run_tmdb.py, lines 65-66 and 59: the query is over, the log is rotated
RotateRollover ==
    /\ h_pc = "run"
    /\ h_query <= h_total
    /\ LET out == MyRotatingFileHandler_doRollover(h_handler, h_files)
       IN  /\ h_handler' = out.handler
           /\ h_files' = out.files
    /\ h_query' = h_query + 1
    /\ UNCHANGED <<h_pc, h_total, h_logged>>
    /\ UNCHANGED nonRotateVars

\* run_tmdb.py, line 59: the dataset is exhausted
RotateEnd ==
    /\ h_pc = "run"
    /\ h_query > h_total
    /\ h_pc' = "done"
    /\ UNCHANGED <<h_total, h_query, h_handler, h_files, h_logged>>
    /\ UNCHANGED nonRotateVars

RotateNext ==
    \/ RotateEmit
    \/ RotateRollover
    \/ RotateEnd


----------------------------------------------------------------------------
(* init_spotify (utils/utils.py) *)

\* the most playlists, tracks, albums or artists a listing returns
MaxItems == 2

Req(method, what) == [method |-> method, what |-> what]

\* lines 160-202: the requests that build the final environment, in order
SeedingRequests ==
    << Req("GET", "search artist"), Req("GET", "top-tracks"), Req("PUT", "me/tracks"),
       Req("GET", "search artist"), Req("GET", "top-tracks"), Req("PUT", "me/tracks"),
       Req("GET", "search artist"), Req("GET", "top-tracks"),
       Req("PUT", "me/following"),
       Req("POST", "users/playlists"), Req("POST", "playlists/tracks"),
       Req("POST", "users/playlists"), Req("POST", "playlists/tracks"),
       Req("GET", "search album"), Req("PUT", "me/albums"), Req("PUT", "me/player/play"),
       Req("GET", "search album"), Req("PUT", "me/albums") >>

\* the bulk delete sent whatever the listing holds
BulkDeleteMutAlways(what, count) == << Req("DELETE", what) >>

\* lines 145-146, 151-152, 157-158: one delete for the whole listing, and
\* none for an empty listing
BulkDelete(what, count) ==
    IF count # 0 THEN << Req("DELETE", what) >> ELSE <<>>

\* init_spotify is not running
SpotifyIdle ==
    /\ i_pc = "idle"
    /\ i_service = [playlists |-> 0, tracks |-> 0, albums |-> 0, artists |-> 0]
    /\ i_left = 0
    /\ i_seeded = 0
    /\ i_requests = <<>>

\* init_spotify(requests_wrapper) is entered
SpotifyInit ==
    /\ i_pc = "me"
    /\ i_service \in [playlists : 0..MaxItems, tracks : 0..MaxItems,
                      albums : 0..MaxItems, artists : 0..MaxItems]
    /\ i_left = 0
    /\ i_seeded = 0
    /\ i_requests = <<>>

\* line 133
SpotifyMe ==
    /\ i_pc = "me"
    /\ i_requests' = Append(i_requests, Req("GET", "me"))
    /\ i_pc' = "playlists"
    /\ UNCHANGED <<i_service, i_left, i_seeded>>
    /\ UNCHANGED nonSpotifyVars

\* lines 136-137: the playlists are listed
SpotifyListPlaylists ==
    /\ i_pc = "playlists"
    /\ i_requests' = Append(i_requests, Req("GET", "me/playlists"))
    /\ i_left' = i_service.playlists
    /\ i_pc' = "unfollow"
    /\ UNCHANGED <<i_service, i_seeded>>
    /\ UNCHANGED nonSpotifyVars

\* lines 139-140: the next playlist is unfollowed
SpotifyUnfollow ==
    /\ i_pc = "unfollow"
    /\ i_left > 0
    /\ i_requests' = Append(i_requests, Req("DELETE", "playlists/followers"))
    /\ i_left' = i_left - 1
    /\ UNCHANGED <<i_pc, i_service, i_seeded>>
    /\ UNCHANGED nonSpotifyVars

\* lines 143-146: the liked tracks are listed and removed
SpotifyTracks ==
    /\ i_pc = "unfollow"
    /\ i_left = 0
    /\ i_requests' = Append(i_requests, Req("GET", "me/tracks"))
                     \o BulkDelete("me/tracks", i_service.tracks)
    /\ i_pc' = "albums"
    /\ UNCHANGED <<i_service, i_left, i_seeded>>
    /\ UNCHANGED nonSpotifyVars

\* lines 149-152: the saved albums are listed and removed
SpotifyAlbums ==
    /\ i_pc = "albums"
    /\ i_requests' = Append(i_requests, Req("GET", "me/albums"))
                     \o BulkDelete("me/albums", i_service.albums)
    /\ i_pc' = "artists"
    /\ UNCHANGED <<i_service, i_left, i_seeded>>
    /\ UNCHANGED nonSpotifyVars

\* lines 155-158: the followed artists are listed and unfollowed
SpotifyArtists ==
    /\ i_pc = "artists"
    /\ i_requests' = Append(i_requests, Req("GET", "me/following"))
                     \o BulkDelete("me/following", i_service.artists)
    /\ i_pc' = "seed"
    /\ UNCHANGED <<i_service, i_left, i_seeded>>
    /\ UNCHANGED nonSpotifyVars

\* lines 160-202: the next request of the seeding
SpotifySeed ==
    /\ i_pc = "seed"
    /\ i_seeded < Len(SeedingRequests)
    /\ i_requests' = Append(i_requests, SeedingRequests[i_seeded + 1])
    /\ i_seeded' = i_seeded + 1
    /\ UNCHANGED <<i_pc, i_service, i_left>>
    /\ UNCHANGED nonSpotifyVars

\* line 202: the last request is sent, the function returns
SpotifyReturn ==
    /\ i_pc = "seed"
    /\ i_seeded = Len(SeedingRequests)
    /\ i_pc' = "returned"
    /\ UNCHANGED <<i_service, i_left, i_seeded, i_requests>>
    /\ UNCHANGED nonSpotifyVars

\* lines 133-200: the answer to the request just sent is read (every GET,
\* and the POST that creates a playlist) and holds no JSON, or not the key
\* that is read from it; the exception leaves the function
SpotifyRaises ==
    /\ i_pc \in {"playlists", "unfollow", "albums", "artists", "seed"}
    /\ Len(i_requests) > 0
    /\ \/ i_requests[Len(i_requests)].method = "GET"
       \/ i_requests[Len(i_requests)] = Req("POST", "users/playlists")
    /\ i_pc' = "raised"
    /\ UNCHANGED <<i_service, i_left, i_seeded, i_requests>>
    /\ UNCHANGED nonSpotifyVars

SpotifyNext ==
    \/ SpotifyMe
    \/ SpotifyListPlaylists
    \/ SpotifyUnfollow
    \/ SpotifyTracks
    \/ SpotifyAlbums
    \/ SpotifyArtists
    \/ SpotifySeed
    \/ SpotifyReturn
    \/ SpotifyRaises

----------------------------------------------------------------------------
(* Specifications *)

\* a run of RestGPT._call
\* every component at rest, over the catalog as built
Rest(components) ==
    /\ "selector" \in components \/ SelIdle
    /\ "caller" \in components \/ CallerIdle
    /\ "parser" \in components \/ ParserIdle
    /\ "ctor" \in components \/ CtorIdle
    /\ "matcher" \in components \/ MatcherIdle
    /\ "fixer" \in components \/ FixerIdle
    /\ "simplify" \in components \/ SimplifyIdle
    /\ "deref" \in components \/ DerefIdle
    /\ "merge" \in components \/ MergeIdle
    /\ "reduce" \in components \/ ReduceIdle
    /\ "batch" \in components \/ BatchIdle
    /\ "secrets" \in components \/ SecretsIdle
    /\ "matchlist" \in components \/ MatchListIdle
    /\ "rotate" \in components \/ RotateIdle
    /\ "spotify" \in components \/ SpotifyIdle
    /\ catalog = CatalogBuilt

Init == OrchInit(TRUE) /\ Rest({})

Next == OrchNext

Spec == Init /\ [][Next]_vars

\* the orchestrator at rest, while a component is run on its own
OrchIdle == OrchInit(FALSE) /\ max_iterations = None /\ max_execution_time = None

\* a call of APISelector.run, retries included
SelectorInit == OrchIdle /\ SelInit /\ Rest({"selector"})

SelectorSpec == SelectorInit /\ [][SelNext]_vars

\* the calls of Caller.run of one process, one after the other
CallerSpecInit == OrchIdle /\ CallerInit /\ Rest({"caller"})

CallerSpec == CallerSpecInit /\ [][CallerNext]_vars

\* a call of ResponseParser.run
ParserSpecInit == OrchIdle /\ ParserInit /\ Rest({"parser"})

\* a construction of RestGPT
CtorSpecInit == OrchIdle /\ CtorInit /\ Rest({"ctor"})

CtorSpec == CtorSpecInit /\ [][CtorNext]_vars

\* a call of get_matched_endpoint
MatcherSpecInit == OrchIdle /\ MatcherInit /\ Rest({"matcher"})

MatcherSpec == MatcherSpecInit /\ [][MatcherNext]_vars

\* calls of fix_json_error
FixerSpecInit == OrchIdle /\ FixerInit /\ Rest({"fixer"})

FixerSpec == FixerSpecInit /\ [][FixerNext]_vars

\* a call of simplify_json
SimplifySpecInit == OrchIdle /\ SimplifyInit /\ Rest({"simplify"})

SimplifySpec == SimplifySpecInit /\ [][SimplifyNext]_vars

\* a call of dereference_refs
DerefSpecInit == OrchIdle /\ DerefInit /\ Rest({"deref"})

DerefSpec == DerefSpecInit /\ [][DerefNext]_vars

\* a call of merge_allof_properties
MergeSpecInit == OrchIdle /\ MergeInit /\ Rest({"merge"})

MergeSpec == MergeSpecInit /\ [][MergeNext]_vars

ParserSpec == ParserSpecInit /\ [][ParserNext]_vars

\* a call of reduce_openapi_spec
ReduceSpecInit == OrchIdle /\ ReduceInit /\ Rest({"reduce"})

ReduceSpec == ReduceSpecInit /\ [][ReduceNext]_vars

\* the batch runner
BatchSpecInit == OrchIdle /\ BatchInit /\ Rest({"batch"})

BatchSpec == BatchSpecInit /\ [][BatchNext]_vars

\* the start of the web front end
SecretsSpecInit == OrchIdle /\ SecretsInit /\ Rest({"secrets"})

SecretsSpec == SecretsSpecInit /\ [][SecretsNext]_vars

\* get_matched_endpoint alone, on plans that mention several endpoints
MatchListSpecInit == OrchIdle /\ MatchListInit /\ Rest({"matchlist"})

MatchListSpec == MatchListSpecInit /\ [][MatchListNext]_vars

\* the log files of a batch: records emitted and rollovers asked for
RotateSpecInit == OrchIdle /\ RotateInit /\ Rest({"rotate"})

RotateSpec == RotateSpecInit /\ [][RotateNext]_vars

\* init_spotify alone, over what the account holds
SpotifySpecInit == OrchIdle /\ SpotifyInit /\ Rest({"spotify"})

SpotifySpec == SpotifySpecInit /\ [][SpotifyNext]_vars

\* The orchestrator with a configured iteration budget and nothing recorded
\* (the control flow never reads the histories or the counters), so that a
\* run that never ends is a cycle of program steps.  The program is
\* single-threaded and always takes its next step.
LiveInit == OrchInit(FALSE) /\ max_iterations # None /\ Rest({})

LiveSpec == LiveInit /\ [][Next]_vars /\ WF_vars(Next)

----------------------------------------------------------------------------
(* Claims about RestGPT._call *)

\* every Planner output of the run so far, in order
PlannerOutputs ==
    IF calls.planner = 0 THEN <<>>
    ELSE [i \in 1..Len(planner_history) |-> planner_history[i][1]] \o <<plan>>

FinalAnswerDone == <<"Final Answer", ":", "done">>

\* the Planner said "Continue", "Continue", "Final Answer: done"
ScriptCCF ==
    /\ track
    /\ Len(PlannerOutputs) >= 3
    /\ Contains(PlannerOutputs[1], "Continue")
    /\ Contains(PlannerOutputs[2], "Continue")
    /\ PlannerOutputs[3] = FinalAnswerDone

\* C1 as stated: with the Planner script Continue, Continue, Final Answer: done
\* the run makes one outer iteration holding two continuation rounds and
\* returns "Final Answer: done".
C1_Original ==
    (pc = "done" /\ ScriptCCF) =>
        /\ Len(PlannerOutputs) = 3
        /\ calls.body = 1
        /\ calls.continuation = 2
        /\ result = FinalAnswerDone

\* C1 amended: with that script the run makes one outer iteration whose first
\* Selector call is an ordinary one (the first "Continue" plan is the step the
\* iteration opens with) followed by exactly one continuation round, and
\* returns "Final Answer: done".
C1_Amended ==
    (pc = "done" /\ ScriptCCF) =>
        /\ Len(PlannerOutputs) = 3
        /\ calls.body = 1
        /\ calls.selector = 2
        /\ calls.continuation = 1
        /\ result = FinalAnswerDone

C1_Witness == pc = "done" /\ ScriptCCF /\ calls.continuation = 1

\* C2 as stated: every run of RestGPT._call with an iteration budget ends
\* (returns, or fails in a stage), whatever the Planner says.
C2_Terminates == <>(pc \in {"done", "raised"})

\* C3: the outer loop body runs at most max_iterations times; a run that
\* returns returns the latest Planner output; and with the budget used up the
\* next step is that return, not an error.
C3_BudgetBound ==
    /\ [](max_iterations # None => calls.body <= max_iterations)
    /\ [](pc = "done" => result = plan /\ calls.planner = calls.selector + 1)
    /\ [][(pc = "loop" /\ ~ _should_continue(iterations, time_elapsed))
            => (pc' = "done" /\ result' = plan)]_vars

C3_Witness ==
    /\ pc = "done"
    /\ track
    /\ max_iterations = 2
    /\ iterations = max_iterations
    /\ calls.body = max_iterations
    /\ ~ _should_end(result)
    /\ result = plan

\* C4 as stated: once a Planner output holds "Final Answer", no Selector or
\* Caller is invoked any more and the run returns that output.
C4_FinalAnswerStops ==
    [][(calls.planner >= 1 /\ Contains(plan, "Final Answer"))
        => /\ calls'.selector = calls.selector
           /\ calls'.caller = calls.caller
           /\ calls'.planner = calls.planner
           /\ pc' \in {"loop", "inner", "done"}
           /\ pc' = "done" => result' = plan]_vars

----------------------------------------------------------------------------
(* Claims about RestGPT.__init__ *)

\* C13: constructed with "Tmdb", RestGPT takes the scenario "tmdb" and is
\* constructed; constructed with "unknown", it raises a configuration error
\* with no Planner and no Selector constructed; and whenever the
\* construction raises, nothing has been constructed.
C13_ScenarioChecked ==
    /\ (init_arg = Capitalize(Chars_tmdb) /\ init_pc \notin {"idle", "new"}) =>
          init_pc # "raised" /\ init_scenario = Chars_tmdb
    /\ (init_arg = Chars_unknown /\ init_pc \notin {"idle", "new"}) =>
          init_pc = "raised" /\ init_error = "ValueError"
    /\ init_pc = "raised" => constructed = <<>>
    /\ \A n \in 1..Len(constructed) : constructed[n][2] \in SupportedScenarios

C13_Witness ==
    /\ init_pc = "constructed"
    /\ init_arg = Capitalize(Chars_tmdb)
    /\ constructed = << <<"Planner", Chars_tmdb>>, <<"APISelector", Chars_tmdb>>,
                        <<"RestGPT", Chars_tmdb>> >>

\* C14 as stated: every letter-case variant of "tmdb" and "spotify" is
\* accepted and normalised to lowercase; only other values are rejected.
C14_Original ==
    init_pc \notin {"idle", "new"} =>
        /\ init_pc = "raised" <=> Lower(init_arg) \notin SupportedScenarios
        /\ init_pc # "raised" => init_scenario = Lower(init_arg)

\* C14 amended: exactly the spellings tmdb, TMDB, Tmdb, spotify and Spotify
\* are accepted, and normalised to lowercase; every other value, any other
\* letter-case variant of the two names included, is rejected.
C14_Amended ==
    init_pc \notin {"idle", "new"} =>
        /\ init_pc = "raised" <=>
              init_arg \notin { Chars_tmdb, Upper(Chars_tmdb), Capitalize(Chars_tmdb),
                                Chars_spotify, Capitalize(Chars_spotify) }
        /\ init_pc # "raised" => init_scenario = Lower(init_arg)

C14_Witness ==
    /\ init_pc = "raised"
    /\ init_arg = Upper(Chars_spotify)
    /\ constructed = <<>>

----------------------------------------------------------------------------
(* Claims about Caller._call *)

\* no completion of the run so far contains "Execution Result:"
NoResultMarker ==
    /\ ~ Contains(caller_chain_output, "Execution Result:")
    /\ \A n \in 1..Len(intermediate_steps) :
          ~ Contains(intermediate_steps[n][1], "Execution Result:")

C6_NonSuccessFlowsToParser ==
    [][(/\ c_pc = "request"
        /\ c_calls'.http = c_calls.http + 1
        /\ http_response'.status_code \notin 200..299)
       => LET data == JsonLoads(OutermostBraces(action_input)).val
          IN  /\ c_pc' = "resolve"
              /\ turn'.response = http_response'.text
              /\ turn'.desc = GetOr(data, "description", PyStr(<<"No description">>))
              /\ turn'.query = GetOr(data, "output_instructions", PyNone)]_vars

\* C7 as stated: a turn text containing "Execution Result:" is a terminal
\* result, the text after the marker; otherwise a text of the shape
\* "Operation: <method> Input: <json>" with a method among GET, POST, PUT and
\* DELETE yields that method and the repaired input; any other text is fatal.
C7_Classification ==
    [][c_pc = "parse" =>
         LET t == caller_chain_output
             i == IndexOf(t, "Operation:")
             j == IF i = 0 THEN 0 ELSE IndexFrom(t, "Input:", i + 1)
             method == Strip(SubSeq(t, i + 1, j - 1))
         IN  IF Contains(t, "Execution Result:")
             THEN c_pc' = "returned" /\ c_result' = AfterLastMarker(t)
             ELSE IF i # 0 /\ j # 0 /\ Len(method) = 1 /\ method[1] \in CallerMethods
             THEN c_pc' = "request" /\ action' = method
             ELSE c_pc' = "raised"]_vars

\* C12 as stated: once built, the catalog is modified by no operation of the
\* Caller: every endpoint document stays as reduce_openapi_spec built it.
C12_CatalogUnchanged == catalog = CatalogBuilt

----------------------------------------------------------------------------
(* Claims about APISelector._call *)

\* the completion names a catalog endpoint
NamesEndpoint(c) == ~ get_matched_endpoint(SpecEndpoints, ApiPlanOf(c)).none

\* the scratchpad an attempt starts with
BaseScratchpad ==
    IF sel_inputs.has_history
    THEN _construct_scratchpad(sel_inputs.history, sel_inputs.instruction)
    ELSE <<>>

\* the first n completions, each followed by the note
RECURSIVE RejectedWithNotes(_, _)
RejectedWithNotes(outs, n) ==
    IF n = 0 THEN <<>>
    ELSE RejectedWithNotes(outs, n - 1) \o outs[n] \o NotInListNote

\* the attempt returned from the validation loop, not as a direct answer
ReturnedFromLoop ==
    /\ sel_pc = "returned"
    /\ ~ (Len(sel_outputs) = 1 /\ Finished(ApiPlanOf(sel_outputs[1])))

\* C8 as stated: what the Selector returns is a direct answer or a plan the
\* matcher resolves to exactly one catalog endpoint (the Caller's assertion
\* on line 254 of caller.py).
C8_SingleEndpoint ==
    sel_pc = "returned" =>
        \/ Finished(sel_result)
        \/ LET matched_endpoints == get_matched_endpoint(SpecEndpoints, sel_result)
           IN  ~ matched_endpoints.none /\ Len(matched_endpoints.list) = 1

\* C9: in the validation loop, the completions before the returned one name no
\* catalog endpoint and the returned one names one; the LLM was re-invoked
\* once per rejected completion, each rejected completion and the note being
\* appended to the scratchpad; a rejection is always followed by another
\* completion, and the Selector raises nothing of its own.
C9_ValidationLoop ==
    /\ [](sel_pc \in {"while", "again", "returned"} /\ ~ (sel_pc = "returned" /\ ~ ReturnedFromLoop)
            => LET n == IF sel_pc = "again" THEN Len(sel_outputs)
                        ELSE Len(sel_outputs) - 1
               IN  /\ \A i \in 1..n : ~ NamesEndpoint(sel_outputs[i])
                   /\ scratchpad = BaseScratchpad \o RejectedWithNotes(sel_outputs, n))
    /\ [](ReturnedFromLoop
            => /\ NamesEndpoint(sel_outputs[Len(sel_outputs)])
               /\ sel_result = ApiPlanOf(sel_outputs[Len(sel_outputs)]))
    /\ [](sel_pc = "raised" => retry_tries = 0)
    /\ [][(sel_pc = "while" /\ get_matched_endpoint(SpecEndpoints, sel_api_plan).none)
            => sel_pc' = "again"]_vars

C9_Witness ==
    /\ ReturnedFromLoop
    /\ Len(sel_outputs) = 3
    /\ sel_inputs.has_history
    /\ Len(scratchpad) > Len(BaseScratchpad)

\* C10 as stated: a rate-limited Selector call is retried up to 3 times, after
\* waits of 15, 30 and 60 seconds, and the error propagates only after the
\* third retry.
C10_Original ==
    sel_pc = "raised" => sleeps = <<15, 30, 60>>

\* C10 amended: a rate-limited Selector call is attempted up to 3 times in
\* all, that is retried up to 2 times, after waits of 15 and then 30 seconds;
\* the error propagates when the third attempt is rate-limited too.
C10_Amended ==
    /\ Len(sleeps) <= 2
    /\ Len(sleeps) >= 1 => sleeps[1] = 15
    /\ Len(sleeps) >= 2 => sleeps[2] = 30
    /\ retry_tries >= 1 => Len(sleeps) + retry_tries = 3
    /\ sel_pc = "raised" <=> retry_tries = 0
    /\ sel_pc = "raised" => sleeps = <<15, 30>>

C10_Witness == sel_pc = "raised" /\ sleeps = <<15, 30>>

----------------------------------------------------------------------------
(* Claims about ResponseParser._call *)

\* the tier events of the run so far, the repair completion left out
TierEvents == SelectSeq(p_events, LAMBDA e : e.prompt # "postprocess_prompt")

\* the three tiers in full: each program is written, then run; the direct
\* extraction comes last
TierOrder ==
    << <<"llm", "code_parsing_schema_prompt">>, <<"exec", "schema">>,
       <<"llm", "code_parsing_response_prompt">>, <<"exec", "response">>,
       <<"llm", "llm_parsing_prompt">> >>

\* the tier raised (None) or printed nothing (the empty string)
YieldedNothing(out) == out.none \/ out.tokens = 0

\* C11: with a query and a schema prompt, the tiers are tried in the order
\* schema program, raw-JSON program, direct extraction; the raw-JSON tier is
\* attempted exactly when the schema program raised or printed nothing, the
\* direct extraction exactly when both programs did, and nothing of a later
\* tier happens once a tier has yielded output.
C11_TierOrder ==
    (p_schema_prompt /\ p_inputs.query) =>
        /\ Len(TierEvents) <= 5
        /\ \A n \in 1..Len(TierEvents) :
              <<TierEvents[n].kind, TierEvents[n].prompt>> = TierOrder[n]
        /\ p_pc \in {"run2", "if3", "post", "returned"} =>
              (Len(TierEvents) >= 3 <=> YieldedNothing(TierEvents[2].out))
        /\ p_pc \in {"post", "returned"} =>
              (Len(TierEvents) = 5 <=>
                  YieldedNothing(TierEvents[2].out) /\ YieldedNothing(TierEvents[4].out))
        /\ p_pc = "returned" =>
              p_result = IF Len(p_events) > Len(TierEvents) THEN p_output
                         ELSE IF Len(TierEvents) = 5 THEN p_output
                         ELSE TierEvents[Len(TierEvents)].out

\* the schema program raised, the raw-JSON program printed nothing, and the
\* direct extraction answered
C11_Witness ==
    /\ p_pc = "returned"
    /\ p_schema_prompt /\ p_inputs.query
    /\ Len(TierEvents) = 5
    /\ TierEvents[2].out.none
    /\ TierEvents[4].out = Text("", 0)
    /\ p_result \in ParserCompletions

----------------------------------------------------------------------------
(* Claims about get_matched_endpoint *)

\* the path segments of a catalog name "METHOD /seg/seg..."
NameSegs(name) == [i \in 1..((Len(name) - 2) \div 2) |-> name[2 + 2 * i]]

\* the mention is the catalog name, or the catalog name with every {param}
\* replaced by one segment, and nothing more
Fits(m, name) ==
    /\ name[1] = m.method
    /\ Len(NameSegs(name)) = Len(m.segs)
    /\ \A i \in 1..Len(m.segs) :
          \/ NameSegs(name)[i] = m.segs[i]
          \/ NameSegs(name)[i] \in ParamToks

\* C15: a "METHOD /path" mention, its query string dropped, is matched to a
\* catalog name exactly when it equals that name or equals the templated
\* name with each {param} replaced by one non-empty slash-free segment and
\* the path matched through to its end; a mention with extra trailing
\* segments, or of an endpoint absent from the catalog, yields no match.
C15_MatchedExactlyWhenFits ==
    m_pc = "done" =>
        /\ m_result.none <=>
              ~ \E n \in 1..Len(SpecEndpoints) : Fits(m_mention, SpecEndpoints[n])
        /\ ~ m_result.none =>
              /\ Len(m_result.list) = 1
              /\ \E n \in 1..Len(SpecEndpoints) :
                    /\ m_result.list[1] = SpecEndpoints[n]
                    /\ Fits(m_mention, SpecEndpoints[n])
        /\ m_mention.segs = <<"m", "7", "c", "x">> => m_result.none

\* a templated name was matched by a mention that carries a query string
C15_Witness ==
    /\ m_pc = "done"
    /\ m_mention = [method |-> "GET", segs |-> <<"m", "7", "c">>, query |-> TRUE]
    /\ m_result = [none |-> FALSE, list |-> <<SpecEndpoints[2]>>]

----------------------------------------------------------------------------
(* Claims about fix_json_error *)

RECURSIVE Dump(_)
RECURSIVE DumpAll(_, _)

\* a parsed value written back on one line
Dump(val) ==
    CASE val.k = "str" -> Str(val.v)
      [] val.k = "lit" -> val.v
      [] val.k = "none" -> <<"null">>
      [] val.k = "arr" -> <<"[">> \o DumpAll(val.v, FALSE) \o <<"]">>
      [] val.k = "obj" -> <<"{">> \o DumpAll(val.v, TRUE) \o <<"}">>

DumpAll(items, keyed) ==
    IF Len(items) = 0 THEN <<>>
    ELSE (IF keyed THEN Str(Head(items).key) \o <<":">> \o Dump(Head(items).val)
          ELSE Dump(Head(items)))
         \o (IF Len(items) > 1 THEN <<",">> ELSE <<>>)
         \o DumpAll(Tail(items), keyed)

\* C16: for a JSON text on several lines whose only defect is commas
\* missing between consecutive members or elements on separate lines, a
\* member that follows a line closing a nested object or array included,
\* fix_json_error returns a text that parses as JSON to the intended value.
C16_RepairsMissingCommas ==
    (/\ f_pc = "done"
     /\ f_round = 1
     /\ f_input.wrap = "none"
     /\ f_input.dropped # {})
    => /\ ~ f_result.raised
       /\ JsonLoads(f_result.data).ok
       /\ Dump(JsonLoads(f_result.data).val)
            = Dump(JsonLoads(Render(FixerDocs[f_input.doc], {})).val)

\* the characters lines 100 trims from the ends of its input
Trimmable == {" ", "\n", "\t", Quote, ",", "BACKTICK"}

BareEnds(text) ==
    /\ Len(text) > 0
    /\ text[1] \notin Trimmable
    /\ text[Len(text)] \notin Trimmable

\* the input without the whitespace, then the quotes, then the commas, then
\* the backticks around it
Trimmed(text) ==
    StripTok(StripTok(StripTok(Strip(text), Quote), ","), "BACKTICK")

\* C17 as stated: an input that already parses as JSON is returned unchanged
C17_Original ==
    (f_pc = "done" /\ JsonLoads(f_text).ok)
    => (~ f_result.raised /\ f_result.data = f_text)

\* C17: fix_json_error trims the whitespace, then the double quotes, then
\* the commas, then the backticks around its input, and where the trimmed
\* text parses as JSON it returns the trimmed text; so an input that parses
\* as JSON and neither starts nor ends with one of those characters is
\* returned unchanged.
C17_Amended ==
    f_pc = "done" =>
        /\ JsonLoads(Trimmed(f_text)).ok
              => (~ f_result.raised /\ f_result.data = Trimmed(f_text))
        /\ (JsonLoads(f_text).ok /\ BareEnds(f_text))
              => (~ f_result.raised /\ f_result.data = f_text)

\* a valid document between whitespace came back without the whitespace
C17_Witness ==
    /\ f_pc = "done"
    /\ f_round = 1
    /\ f_input = [doc |-> 2, dropped |-> {}, wrap |-> "space"]
    /\ JsonLoads(f_text).ok
    /\ ~ f_result.raised
    /\ f_result.data = Render(FixerDocs[2], {})
    /\ f_result.data # f_text

----------------------------------------------------------------------------
(* Claims about simplify_json *)

RECURSIVE IsShrunk(_, _)

\* out is the value in with every list cut to its first two elements, at
\* every depth, and nothing else changed
IsShrunk(in, out) ==
    /\ out.k = in.k
    /\ IF in.k = "arr"
       THEN /\ Len(out.v) = (IF Len(in.v) >= 2 THEN 2 ELSE Len(in.v))
            /\ \A n \in 1..Len(out.v) : IsShrunk(in.v[n], out.v[n])
       ELSE IF in.k = "obj"
       THEN /\ Len(out.v) = Len(in.v)
            /\ \A n \in 1..Len(in.v) :
                  /\ out.v[n].key = in.v[n].key
                  /\ IsShrunk(in.v[n].val, out.v[n].val)
       ELSE out.v = in.v

\* C18: simplify_json returns its input with every list of two or more
\* elements, at any depth, replaced by its first two elements, each shrunk
\* in the same way; a list of no or one element keeps its length, a mapping
\* keeps all its keys with shrunk values, and a scalar passes through.
C18_Shrunk ==
    s_pc = "done" => IsShrunk(SimplifyArg(s_choice), s_result)

\* a long list inside a list of one element, held by a dict, was cut
C18_Witness ==
    /\ s_pc = "done"
    /\ s_choice = [dict |-> TRUE, items |-> <<5, 4, 1>>]
    /\ Len(s_result.v) = 3
    /\ Len(s_result.v[1].val.v) = 1
    /\ Len(s_result.v[1].val.v[1].v) = 2
    /\ Len(s_result.v[2].val.v) = 2

----------------------------------------------------------------------------
(* Claims about dereference_refs *)

\* the subtree of the full spec a reference object points at
Referenced(kind) ==
    IF SlotTarget(kind) = "Foo" THEN FooBody(d_foo) ELSE BarBody

\* the document with the referenced subtree in place of each reference object
Spliced ==
    DocOf([n \in 1..Len(d_slots) |->
              IF SlotTarget(d_slots[n]) = "" THEN Slot(d_slots[n])
              ELSE Referenced(d_slots[n])])

\* C19: dereference_refs on a document without a $ref returns a document
\* equal to its input; on a document with one $ref to a fragment path such
\* as #/components/schemas/Foo it returns the document with exactly the
\* referenced subtree of the full spec in place of the reference object and
\* everything else unchanged.
C19_SplicesReferencedSubtree ==
    d_pc = "done" =>
        /\ (\A n \in 1..Len(d_slots) : d_slots[n] = "plain")
              => /\ d_result.err = ""
                 /\ Dump(d_result.val) = Dump(DerefSpecObj)
        /\ (\E n \in 1..Len(d_slots) :
                /\ SlotTarget(d_slots[n]) # ""
                /\ \A m \in 1..Len(d_slots) : m # n => d_slots[m] = "plain")
              => /\ d_result.err = ""
                 /\ Dump(d_result.val) = Dump(Spliced)

----------------------------------------------------------------------------
(* Claims about merge_allof_properties *)

\* what the call returned in the place of the object that held the allOf
MergedAt ==
    CASE g_place = "top" -> g_result
      [] g_place = "key" -> GetOr(g_result, "schema", PyNone)
      [] g_place = "list" -> GetOr(g_result, "anyOf", PyNone).v[2]

\* the fragments in order, each fragment that holds an allOf list itself
\* standing for the fragments of that list
RECURSIVE Leaves(_)
Leaves(fragments) ==
    IF Len(fragments) = 0 THEN <<>>
    ELSE (IF HasKey(Head(fragments), "allOf")
          THEN Leaves(GetOr(Head(fragments), "allOf", PyNone).v)
          ELSE <<Head(fragments)>>)
         \o Leaves(Tail(fragments))

LeafProperties(leaf) == GetOr(leaf, "properties", Obj(<<>>)).v

RECURSIVE ConcatRequired(_)
ConcatRequired(leaves) ==
    IF Len(leaves) = 0 THEN <<>>
    ELSE GetOr(Head(leaves), "required", Arr(<<>>)).v \o ConcatRequired(Tail(leaves))

\* a property schema after the merge: the one schema of the model that holds
\* an allOf list becomes the flat object of its two fragments
ExpectedSchema(schema) ==
    IF Dump(schema) = Dump(DeepSchema)
    THEN Obj(<< KV("properties", Obj(<< KV("a", Lit("1")), KV("b", Lit("2")) >>)),
                KV("required", Names(<<"a">>)),
                KV("type", PyStr(<<"object">>)) >>)
    ELSE schema

\* C20: merge_allof_properties replaces an object that holds an allOf list
\* by one flat object whose properties is the union of the fragments'
\* properties, a later fragment overriding an earlier one on the same key,
\* and whose required is the concatenation of the fragments' required lists
\* in order, nested allOf lists being merged in the same way; the fragments
\* {a: 1, required [a]} and {b: 2, required [b]} give properties
\* {a: 1, b: 2} and required [a, b].
C20_FlatUnion ==
    g_pc = "done" =>
        LET R == MergedAt
            leaves == Leaves([n \in 1..Len(g_kinds) |-> Fragment(g_kinds[n])])
            P == GetOr(R, "properties", PyNone).v
            has(l, key) == \E m \in 1..Len(LeafProperties(leaves[l])) :
                              LeafProperties(leaves[l])[m].key = key
        IN  /\ R.k = "obj"
            /\ HasKey(R, "properties")
            /\ HasKey(R, "required")
            /\ ~ HasKey(R, "allOf")
            /\ \A i, j \in 1..Len(P) : i # j => P[i].key # P[j].key
            /\ \A l \in 1..Len(leaves) :
                  \A m \in 1..Len(LeafProperties(leaves[l])) :
                     \E i \in 1..Len(P) : P[i].key = LeafProperties(leaves[l])[m].key
            /\ \A i \in 1..Len(P) :
                  /\ \E l \in 1..Len(leaves) : has(l, P[i].key)
                  /\ \A l \in 1..Len(leaves) :
                        (/\ has(l, P[i].key)
                         /\ \A l2 \in (l + 1)..Len(leaves) : ~ has(l2, P[i].key))
                        => \A m \in 1..Len(LeafProperties(leaves[l])) :
                              LeafProperties(leaves[l])[m].key = P[i].key
                              => Dump(P[i].val)
                                   = Dump(ExpectedSchema(LeafProperties(leaves[l])[m].val))
            /\ Dump(GetOr(R, "required", PyNone)) = Dump(Arr(ConcatRequired(leaves)))
            /\ g_kinds = <<"a", "b">> =>
                  /\ Dump(GetOr(R, "properties", PyNone))
                       = <<"{">> \o Str(<<"a">>) \o <<":", "1", ",">>
                         \o Str(<<"b">>) \o <<":", "2", "}">>
                  /\ Dump(GetOr(R, "required", PyNone))
                       = <<"[">> \o Str(<<"a">>) \o <<",">> \o Str(<<"b">>) \o <<"]">>

\* a key of the first fragment was overridden by a fragment of a nested
\* allOf list, and an allOf list under a property was merged as well
C20_Witness ==
    /\ g_pc = "done"
    /\ g_kinds = <<"a", "nested", "deep">>
    /\ g_place = "key"
    /\ GetOr(GetOr(MergedAt, "properties", PyNone), "a", PyNone).v = <<"34">>
    /\ HasKey(GetOr(GetOr(MergedAt, "properties", PyNone), "d", PyNone), "required")
    /\ Len(GetOr(MergedAt, "required", PyNone).v) = 2

----------------------------------------------------------------------------
(* Claims about reduce_openapi_spec *)

\* the routes whose entry is an operation, in order
IncludedRoutes ==
    SelectSeq([n \in 1..Len(r_routes) |-> n],
              LAMBDA n : r_routes[n].key \in {"get", "post"})

\* the 200 entry of the operation of route n as the catalog should hold it
Expected200(n) ==
    CASE r_routes[n].kind \in {"200", "int200"} -> Success(PlainSchema)
      [] r_routes[n].kind = "ref200" ->
            IF r_flags.dereference THEN Success(FooBody("plain"))
            ELSE Success(Obj(<< RefTo("Foo") >>))
      [] r_routes[n].kind = "badref" -> Success(Obj(<< RefTo("Zed") >>))

----------------------------------------------------------------------------
(* Claims about the batch runner *)

\* what is run, printed and rotated for the queries from n on, where every
\* query is attempted once, every error printed and the log rotated once
\* after each query; nothing follows a query left by a non-Exception
RECURSIVE ExpectedEvents(_, _)
ExpectedEvents(queries, n) ==
    IF n > Len(queries) THEN <<>>
    ELSE << <<"run", n>> >>
         \o (IF queries[n] = "Exception" THEN << <<"print", n>> >> ELSE <<>>)
         \o << <<"rollover", n>> >>
         \o (IF queries[n] = "BaseException" THEN <<>>
             ELSE ExpectedEvents(queries, n + 1))

\* C22: the batch runner attempts every query of the dataset exactly once,
\* in dataset order; an error raised while running a query is caught and
\* printed and does not keep the later queries from running, and the log
\* file is rotated exactly once after each query, whether it succeeded or
\* failed.  (Only an exception that is no Exception ends the batch, after
\* the rotation.)
C22_EveryQueryOnce ==
    LET expected == ExpectedEvents(b_queries, 1)
    IN  /\ Len(b_events) <= Len(expected)
        /\ b_events = SubSeq(expected, 1, Len(b_events))
        /\ b_pc = "done" =>
              /\ b_events = expected
              /\ \A n \in 1..Len(b_queries) : b_queries[n] # "BaseException"
              /\ file_handler.cnt = Len(b_queries) + 1
              /\ file_handler.rotated = 1..Len(b_queries)
        /\ b_pc = "raised" =>
              /\ b_events = expected
              /\ b_queries[idx] = "BaseException"

\* a batch ended whose first and last queries failed
C22_Witness ==
    /\ b_pc = "done"
    /\ b_queries = <<"Exception", "returns", "Exception">>
    /\ Len(b_events) = 8
    /\ file_handler.cnt = 4

----------------------------------------------------------------------------
(* Claims about the secret resolution *)

EmptyOrAbsent(held) == held \in {"absent", "empty"}

\* C23: for each configuration key the resolution raises a configuration
\* error whenever the value is empty or absent in both the secret store and
\* the YAML file, and otherwise returns the value of the secret store in
\* preference to the YAML value, falling back to YAML only when the key is
\* absent from the secret store.
C23_RaisesWhenEmptyInBoth ==
    /\ \A n \in 1..Len(environ) :
          /\ ~ (EmptyOrAbsent(secrets[n]) /\ EmptyOrAbsent(config[n]))
          /\ environ[n] = IF secrets[n] # "absent"
                          THEN HeldText("secret", secrets[n])
                          ELSE HeldText("yaml", config[n])
    /\ k_pc = "raised" =>
          /\ EmptyOrAbsent(secrets[Len(environ) + 1])
          /\ EmptyOrAbsent(config[Len(environ) + 1])

-----------------------------------------------------------------------------
(* Claims about the histories of RestGPT._call *)

\* the k-th Selector invocation was given this text to work on: the plan of
\* line 150, the instruction of line 167
GivenTo(k) ==
    IF selector_inputs[k].continuation THEN selector_inputs[k].instruction
    ELSE selector_inputs[k].plan

\* the Selector invocation that opened the outer iteration of the k-th one
Opening(k) ==
    CHOOSE o \in 1..k :
        /\ ~ selector_inputs[o].continuation
        /\ \A i \in (o + 1)..k : selector_inputs[i].continuation

\* C24: the Planner's history only grows: the k-th Planner call is handed
\* exactly the first k-1 pairs, in the order of execution; every Selector
\* invocation whose step completes appends exactly one pair, made of the plan
\* or instruction that invocation was given and of the step's execution
\* result; and the Planner is polled again after every such step, before the
\* next Selector invocation or the end of the run.
C24_PlannerHistory ==
    /\ Len(planner_inputs) = calls.planner
    /\ Len(selector_inputs) = calls.selector
    /\ \A k \in 1..Len(planner_inputs) :
           /\ Len(planner_history) >= k - 1
           /\ planner_inputs[k] = SubSeq(planner_history, 1, k - 1)
    /\ Len(planner_history) =
           IF pc = "execute" \/ (pc = "raised" /\ calls.selector > Len(planner_history))
           THEN calls.selector - 1 ELSE calls.selector
    /\ \A k \in 1..Len(planner_history) :
           /\ planner_history[k][1] = GivenTo(k)
           /\ planner_history[k][2] \in
                  ExecResults \cup { FinishedGroup1(ap) : ap \in ApiPlanTexts }
    /\ pc = "replan" => calls.planner = Len(planner_history)
    /\ pc \in {"select", "inner", "loop", "done"} =>
           calls.planner = Len(planner_history) + 1

C24_Witness ==
    /\ pc = "done"
    /\ Len(planner_inputs) = 4
    /\ planner_inputs[4] = planner_history
    /\ selector_inputs[2].continuation
    /\ ~ selector_inputs[3].continuation
    /\ planner_history[1][1] # planner_history[2][1]

\* C25 (the rounds so far): every continuation round hands the Selector the
\* plan that opened the current outer iteration, the latest Planner output as
\* the instruction, and the triples (instruction, API plan, result) of the
\* steps made so far in this outer iteration, in order, one for the opening
\* step and one for each earlier round; the Selector's history is empty when
\* an outer iteration starts.
C25_Rounds ==
    /\ pc = "select" /\ ~ inner => api_selector_history = <<>>
    /\ pc = "execute" /\ inner =>
           /\ selector_inputs[Len(selector_inputs)].continuation
           /\ selector_inputs[Len(selector_inputs)].instruction = plan
           /\ selector_inputs[Len(selector_inputs)].history = api_selector_history
    /\ pc = "replan" =>
           api_selector_history[Len(api_selector_history)] =
               <<plan, api_plan, planner_history[Len(planner_history)][2]>>
    /\ \A k \in 1..Len(selector_inputs) :
           LET call == selector_inputs[k]
               o    == Opening(k)
           IN  IF ~ call.continuation THEN call.history = <<>>
               ELSE /\ call.plan = selector_inputs[o].plan
                    /\ Len(call.history) = k - o
                    /\ \A i \in 1..Len(call.history) :
                           /\ call.history[i][1] = planner_history[o + i - 1][1]
                           /\ call.history[i][3] = planner_history[o + i - 1][2]
                           /\ call.history[i][2] \in ApiPlanTexts
                           /\ i < Len(call.history) =>
                                  call.history[i] = selector_inputs[k - 1].history[i]

\* C25: the above in every state, and the inner loop goes into another round
\* exactly when the latest Planner output contains "Continue".
C25_ContinuationRounds ==
    /\ []C25_Rounds
    /\ [][pc = "inner" => (pc' = "select" <=> Contains(plan, "Continue"))]_vars
    /\ [][pc' = "select" /\ inner' => pc = "inner"]_vars

C25_Witness ==
    /\ pc = "execute"
    /\ Len(selector_inputs) = 3
    /\ selector_inputs[2].continuation
    /\ selector_inputs[3].continuation
    /\ Len(selector_inputs[3].history) = 2
    /\ selector_inputs[3].plan # selector_inputs[3].instruction
    /\ selector_inputs[3].history[1][2] # selector_inputs[3].history[2][2]

\* C26 as stated: when the Selector's plan begins with "No API call needed."
\* no Caller is run for the step, and the text after that prefix is the
\* execution result appended to both histories before the Planner is polled
\* again, in the opening step and in every continuation round alike.
C26_DirectAnswer ==
    /\ calls.caller =
           Cardinality({ k \in 1..Len(planner_history) :
                             planner_history[k][2] \in ExecResults })
    /\ pc = "replan" /\ Finished(api_plan) =>
           /\ planner_history[Len(planner_history)] = <<plan, Tail(api_plan)>>
           /\ api_selector_history[Len(api_selector_history)] =
                  <<plan, api_plan, Tail(api_plan)>>

-----------------------------------------------------------------------------
(* Claims about the Selector's direct answers *)

\* C27 as stated: the direct-answer test follows every completion of the
\* Selector's LLM, the ones that follow a "not in the list of available APIs"
\* note included: once a completion, its "API calling N: " prefix removed,
\* starts with "No API call needed.", the Selector asks no more and returns
\* that text.
C27_DirectAnswerEveryCompletion ==
    [][(sel_pc \in {"finish", "while"} /\ Finished(sel_api_plan))
          => (sel_pc' = "returned" /\ sel_result' = sel_api_plan)]_vars

-----------------------------------------------------------------------------
(* Claims about the turns of a Caller run *)

ResultMarker == "Execution Result:"

\* the first n recorded turns as the scratchpad shows them
RECURSIVE PairsText(_, _)
PairsText(steps, n) ==
    IF n = 0 THEN <<>>
    ELSE PairsText(steps, n - 1)
         \o <<"Thought: ">> \o steps[n][1] \o <<"\n">>
         \o <<"Response: ">> \o steps[n][2] \o <<"\n">>

\* C28 (the states of a run): in turn k the scratchpad shows exactly the k-1
\* earlier turns, each as its LLM text and its parser result, in order; no
\* recorded turn holds the marker "Execution Result:"; a run that ends on a
\* turn holding the marker has made one completion per turn, and a request
\* and a parser run for each earlier turn only, and returns the text after
\* the marker.
C28_Turns ==
    /\ c_pc \in {"llm", "parse", "request", "resolve", "parser"} =>
           /\ Len(intermediate_steps) = c_iterations
           /\ c_scratchpad = PairsText(intermediate_steps, c_iterations)
    /\ c_pc \in {"parse", "request", "resolve", "parser"} =>
           c_calls.llm = c_iterations + 1
    /\ \A n \in 1..Len(intermediate_steps) :
           /\ ~ Contains(intermediate_steps[n][1], ResultMarker)
           /\ intermediate_steps[n][2] \in ParsingResults
    /\ c_pc = "returned" /\ Contains(caller_chain_output, ResultMarker) =>
           /\ c_calls = [llm |-> Len(intermediate_steps) + 1,
                         http |-> Len(intermediate_steps),
                         parser |-> Len(intermediate_steps)]
           /\ \E i \in 1..Len(caller_chain_output) :
                  /\ caller_chain_output[i] = ResultMarker
                  /\ c_result = Strip(SubSeq(caller_chain_output, i + 1,
                                             Len(caller_chain_output)))

\* C28: the above in every state; a turn whose text holds the marker ends the
\* run there and then, with no request and no parser run; and a finished turn
\* is recorded at the end of the earlier ones, as its text and parser result.
C28_EndsAtResultMarker ==
    /\ []C28_Turns
    /\ [][(c_pc = "parse" /\ Contains(caller_chain_output, ResultMarker))
             => (c_pc' = "returned" /\ c_calls' = c_calls
                 /\ intermediate_steps' = intermediate_steps)]_vars
    /\ [][(c_pc = "parser" /\ c_pc' = "loop")
             => \E parsing_res \in ParsingResults :
                    intermediate_steps' =
                        Append(intermediate_steps, <<caller_chain_output, parsing_res>>)]_vars

C28_Witness ==
    /\ c_pc = "returned"
    /\ Len(intermediate_steps) = 1
    /\ Contains(caller_chain_output, ResultMarker)
    /\ Contains(caller_chain_output, "Operation:")
    /\ c_scratchpad # <<>>
    /\ c_result = <<"done">>

\* C29 as stated: the Caller sends a request only for a method and url path
\* that the matcher resolves to an endpoint of the catalog; no request goes
\* out for an endpoint the catalog does not hold.
C29_OnlyCatalogEndpoints ==
    [][c_calls'.http > c_calls.http => CalledEndpoint(action, action_input).ok]_vars

\* C30 as stated: every turn of a Caller on the music service's search
\* endpoint, whatever searches of other types came before it in the process,
\* hands the parser a success schema holding exactly the one key of the
\* turn's own type, and does not fail because of an earlier search.
C30_SearchTypePerTurn ==
    [][LET r  == CalledEndpoint(action, action_input)
           st == SearchType(turn.params, action_input)
       IN  (/\ c_pc = "resolve"
            /\ c_scenario = "spotify"
            /\ endpoint_name = SearchEndpoint
            /\ r.ok
            /\ r.name = SearchEndpoint
            /\ st.bound
            /\ st.name \in CatalogBuilt[EndpointIndex(SearchEndpoint)])
           => /\ c_pc' = "parser"
              /\ catalog'[EndpointIndex(SearchEndpoint)] = {st.name}]_vars

-----------------------------------------------------------------------------
(* Claims about the texts ResponseParser._call passes on *)

\* the run was given extraction instructions and has a schema prompt
WithInstructions == p_schema_prompt /\ p_inputs.query

\* the run has asked for the repair completion
Repaired ==
    \E n \in 1..Len(p_events) : p_events[n].prompt = "postprocess_prompt"

\* C31 as stated: every returned result has been post-processed, whichever
\* path produced it, the direct summarisation without instructions included:
\* an output of more than 500 tokens never comes back without the cut and the
\* repair completion.
C31_Original ==
    (p_pc = "returned" /\ ~ Repaired) => p_result.tokens <= 500

\* C31 amended: a result of the tiers (a run with extraction instructions) is
\* post-processed: an output of more than 500 tokens is cut to its first 500
\* tokens and handed to the repair prompt, whose completion is returned, and
\* an output of at most 500 tokens is returned as produced; the run without
\* instructions returns its one completion as produced, whatever its length,
\* with no cut and no repair.
C31_Amended ==
    /\ [][p_pc = "post" =>
            /\ p_pc' = "returned"
            /\ IF p_output.tokens > 500
               THEN /\ p_events' =
                         Append(p_events,
                                [kind |-> "llm", prompt |-> "postprocess_prompt",
                                 json |-> [p_output EXCEPT !.tokens = 500, !.cut = 500],
                                 out |-> NoText])
                    /\ p_result' \in ParserCompletions
               ELSE /\ p_events' = p_events
                    /\ p_result' = p_output]_vars
    /\ [][(p_pc' = "returned" /\ p_pc # "returned" /\ WithInstructions)
             => p_pc = "post"]_vars
    /\ [][(p_pc = "call" /\ ~ WithInstructions) =>
            /\ p_pc' = "returned"
            /\ Len(p_events') = 1
            /\ p_events'[1].prompt = "llm_parsing_prompt"
            /\ p_result' = p_output'
            /\ p_result' \in ParserCompletions]_vars

\* the direct extraction answered with 501 tokens and the answer was repaired
C31_Witness ==
    /\ p_pc = "returned"
    /\ WithInstructions
    /\ Len(p_events) = 6
    /\ p_events[6].prompt = "postprocess_prompt"
    /\ p_events[6].json = Truncate(Text("answer", 501), 500)
    /\ p_result.tokens = 10

\* C32 as stated: when both programs yielded nothing, the direct extraction is
\* given the whole body when the body has at most 2,000 tokens, a body of 501
\* to 2,000 tokens included, and its first 2,000 tokens otherwise.
C32_DirectExtractionBody ==
    \A n \in 1..Len(p_events) :
        (WithInstructions /\ p_events[n].prompt = "llm_parsing_prompt") =>
            p_events[n].json.tokens =
                IF p_inputs.json.text.tokens <= 2000
                THEN p_inputs.json.text.tokens ELSE 2000

\* C33 as stated: a run with extraction instructions returns a text for every
\* body, one that is not JSON included: it never raises on the body.
C33_NeverRaisesOnBody ==
    WithInstructions => p_error # "JSONDecodeError"

-----------------------------------------------------------------------------
(* Claims about the termination of dereference_refs *)

\* C34 as stated: dereference_refs comes back with a document on every
\* finite document, one whose $refs form a cycle included, a substituted
\* subtree not being dereferenced again.
C34_TerminatesOnCycles ==
    d_pc = "done" => d_result.err # "RecursionError"

-----------------------------------------------------------------------------
(* Claims about the list get_matched_endpoint returns *)

\* what one mention contributes: the catalog name it spells, else the first
\* catalog name, in catalog order, it fits as a template, else nothing
ExpectedFor(names, m) ==
    LET spelled == <<m.method, " ">> \o PathOf(m.segs)
        fitting == { n \in 1..Len(names) : Len(m.segs) > 0 /\ Fits(m, names[n]) }
    IN  IF \E n \in 1..Len(names) : names[n] = spelled THEN <<spelled>>
        ELSE IF fitting = {} THEN <<>>
        ELSE <<names[CHOOSE n \in fitting : \A k \in fitting : n <= k]>>

\* the contributions of the first n mentions, in order of mention
RECURSIVE ExpectedUpTo(_, _, _)
ExpectedUpTo(names, mentions, n) ==
    IF n = 0 THEN <<>>
    ELSE ExpectedUpTo(names, mentions, n - 1) \o ExpectedFor(names, mentions[n])

\* C35: get_matched_endpoint returns None or a non-empty list, never an empty
\* list; every element is a name of the catalog; there is at most one element
\* for each "METHOD /path" mention, in order of mention; and a mention matched
\* as a template gives the first catalog name, in catalog order, whose
\* pattern matches it.
C35_MatchedList ==
    l_pc = "done" =>
        LET names == Catalogs[l_catalog]
            expected == ExpectedUpTo(names, l_mentions, Len(l_mentions))
        IN  /\ l_result.none <=> expected = <<>>
            /\ l_result.none => l_result.list = <<>>
            /\ ~ l_result.none =>
                  /\ Len(l_result.list) >= 1
                  /\ Len(l_result.list) <= Len(l_mentions)
                  /\ \A i \in 1..Len(l_result.list) :
                        \E n \in 1..Len(names) : l_result.list[i] = names[n]
                  /\ l_result.list = expected

\* two mentions, the first fitting two templated names and matched to the
\* first of them, the second spelling a name that a template fits as well
C35_Witness ==
    /\ l_pc = "done"
    /\ l_catalog = 2
    /\ l_mentions = << [method |-> "GET", segs |-> <<"m", "7">>],
                       [method |-> "GET", segs |-> <<"m", "x">>] >>
    /\ l_result = [none |-> FALSE,
                   list |-> << Catalogs[2][1], Catalogs[2][2] >>]

-----------------------------------------------------------------------------
(* Claims about the totality of fix_json_error *)

\* C36 as stated: fix_json_error returns a text for every input and never
\* raises, also where the input does not parse and its last line neither is
\* nor ends in a bracket or brace.
C36_NeverRaises ==
    f_pc = "done" => ~ f_result.raised

-----------------------------------------------------------------------------
(* Claims about the background *)

\* the execution results of the first n entries, one a line
RECURSIVE ResultsJoined(_, _)
ResultsJoined(history, n) ==
    IF n = 0 THEN <<>>
    ELSE IF n = 1 THEN history[1][2]
    ELSE ResultsJoined(history, n - 1) \o <<"\n">> \o history[n][2]

\* C37 (the Selector): the background of the k-th Selector call, an opening
\* step or a continuation round, is made of the execution results of the k-1
\* entries the Planner's history holds by then, in order, one a line, and is
\* "No background" when there is none.
C37_SelectorBackground ==
    \A k \in 1..Len(selector_inputs) :
        selector_inputs[k].background =
            IF k = 1 THEN <<"No background">>
            ELSE ResultsJoined(planner_history, k - 1)

\* C37: the above in every state, and the Caller run in a step is handed the
\* background the Selector was handed in that step.
C37_Background ==
    /\ []C37_SelectorBackground
    /\ [][caller_inputs' # caller_inputs =>
            /\ pc = "execute"
            /\ caller_inputs' =
                 Append(caller_inputs,
                        [api_plan |-> api_plan,
                         background |->
                             selector_inputs[Len(selector_inputs)].background])]_vars

\* the third step's Selector and Caller were handed a direct answer and a
\* Caller's result, in that order
C37_Witness ==
    /\ pc = "replan"
    /\ Len(selector_inputs) = 3
    /\ selector_inputs[3].continuation
    /\ selector_inputs[3].background = <<"ans", "\n", "res">>
    /\ Len(caller_inputs) = 2
    /\ caller_inputs[2].background = <<"ans", "\n", "res">>

-----------------------------------------------------------------------------
(* Claims about the log files *)

\* the records the query logged, in order
LoggedBy(q) == SelectSeq(h_logged, LAMBDA r : r.query = q)

\* the records of the query held by the file, in order
HeldOf(f, q) == SelectSeq(h_files[f].lines, LAMBDA r : r.query = q)

\* C38 (the files): the counter is one more than the number of rollovers
\* made; the records of a query that is over are in the file of its number,
\* all of them and in order, and in no other file; the records of the query
\* being run are in the log itself.
C38_Files ==
    h_pc \in {"run", "done"} =>
        /\ h_handler.cnt = h_query
        /\ \A q \in 1..h_total, f \in 0..(MaxQueries + 1) :
              HeldOf(f, q) =
                  IF (q < h_query /\ f = q) \/ (q = h_query /\ f = 0)
                  THEN LoggedBy(q) ELSE <<>>
        /\ \A q \in 1..(h_query - 1) : h_files[q].exists

\* C38: the above in every state; emitting a record never rotates (the
\* counter and the numbered files stay as they are, the record goes to the
\* end of the log); and the n-th rollover moves the log to file number n,
\* whatever that file held before, starts an empty log and leaves the
\* counter at n + 1.
C38_Rotation ==
    /\ []C38_Files
    /\ [][h_logged' # h_logged =>
            /\ h_handler' = h_handler
            /\ \A f \in 1..(MaxQueries + 1) : h_files'[f] = h_files[f]
            /\ h_files'[0].lines =
                   Append(h_files[0].lines, h_logged'[Len(h_logged')])]_vars
    /\ [][h_query' # h_query =>
            /\ h_files'[h_handler.cnt] = h_files[0]
            /\ h_files'[0] = [exists |-> TRUE, lines |-> <<>>]
            /\ \A f \in 1..(MaxQueries + 1) :
                   f # h_handler.cnt => h_files'[f] = h_files[f]
            /\ h_handler'.cnt = h_handler.cnt + 1]_vars

\* three queries, the second logging nothing, over files of an earlier
\* process
C38_Witness ==
    /\ h_pc = "done"
    /\ h_total = 3
    /\ h_handler.cnt = 4
    /\ h_files[1].lines = <<StaleLine, [query |-> 1, n |-> 1], [query |-> 1, n |-> 2]>>
    /\ h_files[2] = [exists |-> TRUE, lines |-> <<>>]
    /\ h_files[3].lines = <<[query |-> 3, n |-> 1]>>
    /\ h_files[0] = [exists |-> TRUE, lines |-> <<>>]

-----------------------------------------------------------------------------
(* Claims about init_spotify *)

\* a request that removes something from the account
IsCleanup(r) == r.method = "DELETE"

\* a request that saves, follows, creates a playlist, adds tracks or starts
\* the playback
IsSeeding(r) == r.method \in {"PUT", "POST"}

\* how many requests of the kind were sent
Sent(method, what) ==
    Cardinality({ n \in 1..Len(i_requests) :
                      i_requests[n] = [method |-> method, what |-> what] })

\* the listing of the kind was sent and answered
Listed(what) ==
    \E n \in 1..Len(i_requests) :
        /\ i_requests[n] = [method |-> "GET", what |-> what]
        /\ n < Len(i_requests) \/ i_pc # "raised"

\* the cleanup is over: every playlist listed was unfollowed and the three
\* other listings were made and, where they held something, emptied
CleanupDone ==
    /\ Sent("DELETE", "playlists/followers") = i_service.playlists
    /\ \A what \in {"me/tracks", "me/albums", "me/following"} : Sent("GET", what) = 1
    /\ Sent("DELETE", "me/tracks") = (IF i_service.tracks > 0 THEN 1 ELSE 0)
    /\ Sent("DELETE", "me/albums") = (IF i_service.albums > 0 THEN 1 ELSE 0)
    /\ Sent("DELETE", "me/following") = (IF i_service.artists > 0 THEN 1 ELSE 0)

\* C39: in init_spotify every cleanup request comes before every seeding
\* request; one unfollow is sent for each playlist the listing returned; the
\* bulk deletes of the liked tracks, the saved albums and the followed
\* artists are each sent exactly when the listing holds something; and no
\* save, follow, create-playlist, add-tracks or playback request is sent
\* before all of these cleanup requests.
C39_CleanupBeforeSeeding ==
    /\ \A m, n \in 1..Len(i_requests) :
          (IsSeeding(i_requests[m]) /\ IsCleanup(i_requests[n])) => n < m
    /\ Sent("DELETE", "playlists/followers") <= i_service.playlists
    /\ i_pc \in {"albums", "artists", "seed", "returned"} =>
          Sent("DELETE", "playlists/followers") = i_service.playlists
    /\ i_pc \in {"albums", "artists", "seed", "returned"} =>
          (Sent("DELETE", "me/tracks") = 1 <=> i_service.tracks > 0)
    /\ i_pc \in {"artists", "seed", "returned"} =>
          (Sent("DELETE", "me/albums") = 1 <=> i_service.albums > 0)
    /\ i_pc \in {"seed", "returned"} =>
          (Sent("DELETE", "me/following") = 1 <=> i_service.artists > 0)
    /\ \A what \in {"me/tracks", "me/albums", "me/following"} :
          /\ Sent("DELETE", what) <= 1
          /\ Sent("DELETE", what) = 1 => Listed(what)
    /\ (\E n \in 1..Len(i_requests) : IsSeeding(i_requests[n])) => CleanupDone
    /\ i_pc = "returned" =>
          /\ CleanupDone
          /\ Cardinality({ n \in 1..Len(i_requests) : IsSeeding(i_requests[n]) }) = 10

\* the account held two playlists and liked tracks but no album and no
\* followed artist, and the environment was built
C39_Witness ==
    /\ i_pc = "returned"
    /\ i_service = [playlists |-> 2, tracks |-> 1, albums |-> 0, artists |-> 0]
    /\ Sent("DELETE", "playlists/followers") = 2
    /\ Sent("DELETE", "me/tracks") = 1
    /\ Sent("DELETE", "me/albums") = 0
    /\ Sent("PUT", "me/player/play") = 1

====
